---- MODULE Spec2Model ----
(***************************************************************************)
(* Model of the markdown <-> document-tree converter of the editor         *)
(* (src/src/editor/markdown.ts).                                           *)
(*                                                                         *)
(* Strings are sequences of one-character strings, so that escaping,       *)
(* splitting, trimming and padding are computed the way the code computes  *)
(* them.  The control character U+0001 of the comment sentinels is written *)
(* as the single symbol "SOH".  null / undefined is the value Null.        *)
(***************************************************************************)
EXTENDS Integers, Sequences, FiniteSets, TLC

VARIABLES
    \* ---- escapeCommentText / unescapeCommentText exercised on their own
    epc,          \* "start" | "escaped" | "done"
    etext,        \* the comment text given to escapeCommentText
    escaped,      \* the result of escapeCommentText(etext)
    unescaped,    \* the result of unescapeCommentText(escaped)
    \* ---- an editor session calling markdownParser.parse and
    \* ---- markdownSerializer.serialize
    pc,           \* where the current call stands; "idle" between calls
    todo,         \* the calls still to make, in order
    hist,         \* the calls made: [op, arg, res]
    document,          \* the document of the session: the last tree parsed or given
    out,          \* the text of the last serialize call
    given,        \* what the session started from: a description of its input
    \* ---- the local variables of the parse call in progress
    parseContent,            \* the argument of parse
    commentProcessed,   \* preprocessComments(content).content
    parseCommentTexts,       \* preprocessComments(content).commentTexts
    processedContent,   \* preprocessHtmlImages(commentProcessed).content
    parseImgAttrs,           \* preprocessHtmlImages(commentProcessed).imgAttrs
    parseTokens,             \* md.parse(processedContent, {})
    tableRanges,        \* [start, end] token index pairs, 0-based
    parseChildren,           \* the blocks assembled so far
    lastEnd,            \* the token index after the last table range
    ri,                 \* the next table range to handle, 1-based
    \* ---- parseTableTokens followed one token at a time
    tacc,         \* its locals: rows, currentRow, currentCellType, currentCellContent, result
    tn,           \* the number of tokens it has consumed
    topened       \* the types of the tokens that opened the cells kept so far

escVars == <<epc, etext, escaped, unescaped>>
sessVars == <<pc, todo, hist, document, out, given>>
sessVarsButPc == <<todo, hist, document, out, given>>
callVars == <<parseContent, commentProcessed, parseCommentTexts, processedContent, parseImgAttrs,
              parseTokens, tableRanges, parseChildren, lastEnd, ri>>
extVars == <<tacc, tn, topened>>
vars == <<escVars, sessVars, callVars, extVars>>

\* --------------------------------------------------------------- bounds
MaxCommentLen == 3

\* ------------------------------------------------------- string helpers
Null == <<"NULL">>

BS == "\\"
DQ == "\""
NL == "\n"
CR == "\r"
TAB == "\t"

\* Sequences over S of length 0..n
SeqsUpTo(S, n) == UNION {[1..k -> S] : k \in 0..n}

\* String.prototype.replace(/ch/g, rep) for a one-character pattern
RECURSIVE ReplaceAll(_, _, _)
ReplaceAll(s, ch, rep) ==
    IF s = <<>> THEN <<>>
    ELSE (IF Head(s) = ch THEN rep ELSE <<Head(s)>>) \o ReplaceAll(Tail(s), ch, rep)

\* ------------------------------------------------- comment text escaping
\* The same passes in another order: the backslash pass runs last and
\* doubles the backslashes the other passes have just written.
escapeCommentText_BackslashLast(text) ==
    LET a == ReplaceAll(text, DQ, <<BS, DQ>>)
        b == ReplaceAll(a, NL, <<BS, "n">>)
        c == ReplaceAll(b, CR, <<BS, "r">>)
        d == ReplaceAll(c, TAB, <<BS, "t">>)
    IN  ReplaceAll(d, BS, <<BS, BS>>)

escapeCommentText(text) ==
    LET a == ReplaceAll(text, BS, <<BS, BS>>)
        b == ReplaceAll(a, DQ, <<BS, DQ>>)
        c == ReplaceAll(b, NL, <<BS, "n">>)
        d == ReplaceAll(c, CR, <<BS, "r">>)
    IN  ReplaceAll(d, TAB, <<BS, "t">>)

\* the while loop of unescapeCommentText, from index i (1-based)
RECURSIVE UnescapeFrom(_, _)
UnescapeFrom(text, i) ==
    IF i > Len(text) THEN <<>>
    ELSE IF text[i] = BS /\ i + 1 <= Len(text)
    THEN LET next == text[i + 1] IN
         CASE next = BS  -> <<BS>>  \o UnescapeFrom(text, i + 2)
           [] next = DQ  -> <<DQ>>  \o UnescapeFrom(text, i + 2)
           [] next = "n" -> <<NL>>  \o UnescapeFrom(text, i + 2)
           [] next = "r" -> <<CR>>  \o UnescapeFrom(text, i + 2)
           [] next = "t" -> <<TAB>> \o UnescapeFrom(text, i + 2)
           [] OTHER      -> <<text[i]>> \o UnescapeFrom(text, i + 1)
    ELSE <<text[i]>> \o UnescapeFrom(text, i + 1)

unescapeCommentText(text) == UnescapeFrom(text, 1)

\* ------------------------------------------------------ more string helpers
SP == " "
PIPE == "|"
\* the characters String.prototype.trim() removes that the model's texts use
WS == {SP, TAB, NL, CR}

RECURSIVE TrimStart(_)
TrimStart(s) == IF s # <<>> /\ Head(s) \in WS THEN TrimStart(Tail(s)) ELSE s

RECURSIVE TrimEnd(_)
TrimEnd(s) ==
    IF s # <<>> /\ s[Len(s)] \in WS THEN TrimEnd(SubSeq(s, 1, Len(s) - 1)) ELSE s

Trim(s) == TrimEnd(TrimStart(s))

\* str.repeat(n)
RECURSIVE Repeat(_, _)
Repeat(ch, n) == IF n <= 0 THEN <<>> ELSE <<ch>> \o Repeat(ch, n - 1)

\* String.prototype.padEnd(n)
PadEnd(s, n) == s \o Repeat(SP, n - Len(s))

Max(a, b) == IF a >= b THEN a ELSE b

\* the least element of a set of numbers, none when the set is empty
LeastOr(S, none) == IF S = {} THEN none ELSE CHOOSE x \in S : \A y \in S : x <= y
Min(a, b) == IF a <= b THEN a ELSE b

\* the j-th smallest element of P; 0 for j = 0 and n + 1 beyond the last
NthOf(P, j, n) ==
    IF j = 0 THEN 0
    ELSE IF j > Cardinality(P) THEN n + 1
    ELSE CHOOSE k \in P : Cardinality({q \in P : q < k}) = j - 1

\* the parts of s between the separator positions P
SplitAt(s, P) ==
    [j \in 1..(Cardinality(P) + 1) |->
        SubSeq(s, NthOf(P, j - 1, Len(s)) + 1, NthOf(P, j, Len(s)) - 1)]

\* String.prototype.split(ch) for a one-character separator: never empty
Split(s, ch) == SplitAt(s, {k \in 1..Len(s) : s[k] = ch})

\* Array.prototype.join(sep)
RECURSIVE Join(_, _)
Join(parts, sep) ==
    IF parts = <<>> THEN <<>>
    ELSE IF Len(parts) = 1 THEN parts[1]
    ELSE parts[1] \o sep \o Join(Tail(parts), sep)

\* concatenation of a sequence of strings
RECURSIVE Concat(_)
Concat(parts) == IF parts = <<>> THEN <<>> ELSE Head(parts) \o Concat(Tail(parts))

\* s starts with p at index i (1-based)
StartsAt(s, p, i) == i + Len(p) - 1 <= Len(s) /\ SubSeq(s, i, i + Len(p) - 1) = p

\* String.prototype.indexOf(p, from): 1-based index, 0 when absent
IndexFrom(s, p, i) == LeastOr({k \in i..(Len(s) - Len(p) + 1) : StartsAt(s, p, k)}, 0)

Includes(s, p) == IndexFrom(s, p, 1) # 0

\* ------------------------------------------------------- document tree
\* Nodes of the schema (src/unnamed/part_002).  A text node holds text and
\* marks; every other node holds its children in content.
TextNode(text, marks) == [type |-> "text", text |-> text, marks |-> marks]
Paragraph(content) == [type |-> "paragraph", content |-> content]
EmptyParagraph == Paragraph(<<>>)
TableCell(type, content) == [type |-> type, content |-> content]
TableRow(cells) == [type |-> "table_row", content |-> cells]
Table(rows) == [type |-> "table", content |-> rows]
Doc(children) == [type |-> "doc", content |-> children]
ListItem(content) == [type |-> "list_item", content |-> content]
OrderedList(order, items) ==
    [type |-> "ordered_list", attrs |-> [order |-> order], content |-> items]
CommentMark(text) == [type |-> "comment", text |-> text]
Blockquote(content) == [type |-> "blockquote", content |-> content]
CodeBlock(language, content) ==
    [type |-> "code_block", attrs |-> [language |-> language], content |-> content]

\* null where a node is expected
NullNode == [type |-> "null"]

IsText(node) == node.type = "text"

\* Node.textContent: the text of all text descendants
RECURSIVE TextContent(_)
TextContent(node) ==
    IF IsText(node) THEN node.text
    ELSE IF node.type \in {"image", "hard_break"} THEN <<>>
    ELSE Concat([i \in 1..Len(node.content) |-> TextContent(node.content[i])])

\* ------------------------------------------- serializer: the output state
\* MarkdownSerializerState as the node renderers use it at block level:
\* out is the text written so far, closed says that a block was closed and
\* a blank line is owed before the next write, closedType the type of the
\* closed block where a renderer asks for it, and delim the prefix of the
\* lines inside a list item.
NewState == [out |-> <<>>, closed |-> FALSE, closedType |-> "", delim |-> <<>>]

AtBlank(o) == o = <<>> \/ o[Len(o)] = NL

\* flushClose(size): the line is ended and size - 1 lines of the prefix
\* without its trailing whitespace follow
FlushCloseOf(st, size) ==
    IF st.closed
    THEN [st EXCEPT !.out = (IF AtBlank(@) THEN @ ELSE @ \o <<NL>>)
                            \o Concat([k \in 1..(size - 1) |-> TrimEnd(st.delim) \o <<NL>>]),
                    !.closed = FALSE, !.closedType = ""]
    ELSE st

FlushClose(st) == FlushCloseOf(st, 2)

\* write(content): the owed blank line, the prefix at the start of a line,
\* the content
WriteFlushed(f, s) ==
    [f EXCEPT !.out = (IF f.delim # <<>> /\ AtBlank(@) THEN @ \o f.delim ELSE @) \o s]

Write(st, s) == WriteFlushed(FlushClose(st), s)

CloseBlock(st) == [st EXCEPT !.closed = TRUE, !.closedType = "block"]

\* ------------------------------------------------- serializer: tables
\* the other-block branch of getCellTextContent is TextContent; a text child
\* and a paragraph child contribute the text of their text nodes
CellChildText(child) ==
    IF IsText(child) THEN child.text
    ELSE IF child.type = "paragraph"
    THEN Concat([k \in 1..Len(child.content) |->
                   IF IsText(child.content[k]) THEN child.content[k].text ELSE <<>>])
    ELSE TextContent(child)

\* the text of a cell without the final trim()
getCellTextContent_NoTrim(cell) ==
    Concat([k \in 1..Len(cell.content) |-> CellChildText(cell.content[k])])

getCellTextContent(cell) ==
    Trim(Concat([k \in 1..Len(cell.content) |-> CellChildText(cell.content[k])]))

\* rows: string[][] of serializeTable
TableCellTexts(table) ==
    [i \in 1..Len(table.content) |->
        [j \in 1..Len(table.content[i].content) |->
            getCellTextContent(table.content[i].content[j])]]

HasHeaderRow(table) ==
    \E i \in 1..Len(table.content) : \E j \in 1..Len(table.content[i].content) :
        table.content[i].content[j].type = "table_header"

MaxOf(S) == IF S = {} THEN 0
            ELSE LET x == CHOOSE y \in S : \A z \in S : y >= z IN x

\* colCount = Math.max(...rows.map(r => r.length))
ColCount(rows) == MaxOf({Len(rows[i]) : i \in 1..Len(rows)})

\* colWidths[col]: 3 at least, else the longest text of the column
\* (col is 1-based here)
ColWidth(rows, col) ==
    MaxOf({3} \cup {Len(rows[i][col]) : i \in {r \in 1..Len(rows) : col <= Len(rows[r])}})

\* one content line: '|' then ' ' + content.padEnd(width) + ' |' per column
TableRowLine(rows, i) ==
    <<PIPE>> \o
    Concat([col \in 1..ColCount(rows) |->
              <<SP>> \o PadEnd(IF col <= Len(rows[i]) THEN rows[i][col] ELSE <<>>,
                               ColWidth(rows, col)) \o <<SP, PIPE>>])
    \o <<NL>>

TableSeparatorLine(rows) ==
    <<PIPE>> \o
    Concat([col \in 1..ColCount(rows) |->
              <<SP>> \o Repeat("-", ColWidth(rows, col)) \o <<SP, PIPE>>])
    \o <<NL>>

\* the separator is written for every row, not only after row 0
TableLines_SeparatorEveryRow(table) ==
    LET rows == TableCellTexts(table) IN
    Concat([i \in 1..Len(rows) |-> TableRowLine(rows, i) \o TableSeparatorLine(rows)])

\* the separator follows row 0 whatever the table holds
TableLines_SeparatorAlways(table) ==
    LET rows == TableCellTexts(table) IN
    Concat([i \in 1..Len(rows) |->
              TableRowLine(rows, i) \o (IF i = 1 THEN TableSeparatorLine(rows) ELSE <<>>)])

\* the text serializeTable writes for the rows of a table that has rows
TableLines(table) ==
    LET rows == TableCellTexts(table) IN
    Concat([i \in 1..Len(rows) |->
              TableRowLine(rows, i) \o
              (IF i = 1 /\ (HasHeaderRow(table) \/ Len(rows) > 1)
               THEN TableSeparatorLine(rows) ELSE <<>>)])

serializeTable(st, table) ==
    IF Len(table.content) = 0 THEN st
    ELSE CloseBlock(Write(st, TableLines(table)))

\* ------------------------------------------------- serializer: inline
\* JavaScript truthiness of an optional string attribute
Truthy(s) == s # Null /\ s # <<>>

\* String(n) for n >= 0
DigitChars == <<"0", "1", "2", "3", "4", "5", "6", "7", "8", "9">>
RECURSIVE IntToStr(_)
IntToStr(n) ==
    IF n < 10 THEN <<DigitChars[n + 1]>>
    ELSE IntToStr(n \div 10) \o <<DigitChars[(n % 10) + 1]>>

Digits == {"0", "1", "2", "3", "4", "5", "6", "7", "8", "9"}

DigitValue(ch) == CHOOSE d \in 0..9 : DigitChars[d + 1] = ch

\* parseInt(digits, 10) for a string of digits
RECURSIVE ParseInt(_)
ParseInt(ds) ==
    IF ds = <<>> THEN 0
    ELSE 10 * ParseInt(SubSeq(ds, 1, Len(ds) - 1)) + DigitValue(ds[Len(ds)])

\* state.esc(str): a backslash before each of the backtick, * \ ~ [ ] and _ .
\* (The backtick is written as the symbol BT: the parser of this language
\* does not take it inside a string.)  The
\* start-of-line escapes do not apply to the texts of the model, which do
\* not start with + - * > # or a digit followed by a dot.
BT == "BACKTICK"
EscChars == {BT, "*", BS, "~", "[", "]", "_"}
RECURSIVE Esc(_)
Esc(str) ==
    IF str = <<>> THEN <<>>
    ELSE (IF Head(str) \in EscChars THEN <<BS, Head(str)>> ELSE <<Head(str)>>)
         \o Esc(Tail(str))

INLINE == <<"i", "n", "l", "i", "n", "e">>
CENTER == <<"c", "e", "n", "t", "e", "r">>
IMG_OPEN == <<"<", "i", "m", "g">>
QUOT == <<"&", "q", "u", "o", "t", ";">>

Image(src, alt, title, align, width, relativeSrc) ==
    [type |-> "image", marks |-> <<>>,
     attrs |-> [src |-> src, alt |-> alt, title |-> title, align |-> align,
                width |-> width, relativeSrc |-> relativeSrc]]

\* any width other than 0 counts as custom
HasCustomAttrs_AnyWidth(attrs) ==
    \/ (Truthy(attrs.align) /\ attrs.align # INLINE)
    \/ attrs.width # 0

\* hasCustomAttrs of the image renderer.  A width is a number; the falsy
\* widths (0, undefined, null), which the code never tells apart, are 0.
HasCustomAttrs(attrs) ==
    \/ (Truthy(attrs.align) /\ attrs.align # INLINE)
    \/ (attrs.width # 0 /\ attrs.width # 100)

\* src is written whether or not there is a relativeSrc
ImageText_SrcOnly(attrs) ==
    IF HasCustomAttrs(attrs)
    THEN IMG_OPEN
         \o <<SP, "s", "r", "c", "=", DQ>> \o attrs.src \o <<DQ>>
         \o (IF Truthy(attrs.alt)
             THEN <<SP, "a", "l", "t", "=", DQ>> \o ReplaceAll(attrs.alt, DQ, QUOT) \o <<DQ>>
             ELSE <<>>)
         \o (IF Truthy(attrs.title)
             THEN <<SP, "t", "i", "t", "l", "e", "=", DQ>>
                  \o ReplaceAll(attrs.title, DQ, QUOT) \o <<DQ>>
             ELSE <<>>)
         \o (IF Truthy(attrs.align) /\ attrs.align # INLINE
             THEN <<SP, "a", "l", "i", "g", "n", "=", DQ>> \o attrs.align \o <<DQ>>
             ELSE <<>>)
         \o (IF attrs.width # 0 /\ attrs.width # 100
             THEN <<SP, "w", "i", "d", "t", "h", "=", DQ>>
                  \o IntToStr(attrs.width) \o <<"%", DQ>>
             ELSE <<>>)
         \o <<SP, "/", ">">>
    ELSE <<"!", "[">> \o Esc(IF Truthy(attrs.alt) THEN attrs.alt ELSE <<>>)
         \o <<"]", "(">> \o attrs.src
         \o (IF Truthy(attrs.title)
             THEN <<SP, DQ>> \o ReplaceAll(attrs.title, DQ, <<BS, DQ>>) \o <<DQ>>
             ELSE <<>>)
         \o <<")">>

\* the text the image renderer writes
ImageText(attrs) ==
    LET markdownSrc == IF Truthy(attrs.relativeSrc) THEN attrs.relativeSrc ELSE attrs.src
    IN
    IF HasCustomAttrs(attrs)
    THEN IMG_OPEN
         \o <<SP, "s", "r", "c", "=", DQ>> \o markdownSrc \o <<DQ>>
         \o (IF Truthy(attrs.alt)
             THEN <<SP, "a", "l", "t", "=", DQ>> \o ReplaceAll(attrs.alt, DQ, QUOT) \o <<DQ>>
             ELSE <<>>)
         \o (IF Truthy(attrs.title)
             THEN <<SP, "t", "i", "t", "l", "e", "=", DQ>>
                  \o ReplaceAll(attrs.title, DQ, QUOT) \o <<DQ>>
             ELSE <<>>)
         \o (IF Truthy(attrs.align) /\ attrs.align # INLINE
             THEN <<SP, "a", "l", "i", "g", "n", "=", DQ>> \o attrs.align \o <<DQ>>
             ELSE <<>>)
         \o (IF attrs.width # 0 /\ attrs.width # 100
             THEN <<SP, "w", "i", "d", "t", "h", "=", DQ>>
                  \o IntToStr(attrs.width) \o <<"%", DQ>>
             ELSE <<>>)
         \o <<SP, "/", ">">>
    ELSE <<"!", "[">> \o Esc(IF Truthy(attrs.alt) THEN attrs.alt ELSE <<>>)
         \o <<"]", "(">> \o markdownSrc
         \o (IF Truthy(attrs.title)
             THEN <<SP, DQ>> \o ReplaceAll(attrs.title, DQ, <<BS, DQ>>) \o <<DQ>>
             ELSE <<>>)
         \o <<")">>

COMMENT_OPEN == <<"<", "!", "-", "-", SP, "C", "O", "M", "M", "E", "N", "T", ":", SP, DQ>>
COMMENT_OPEN_END == <<DQ, SP, "-", "-", ">">>
COMMENT_CLOSE == <<"<", "!", "-", "-", SP, "/", "C", "O", "M", "M", "E", "N", "T", SP, "-", "-", ">">>

\* the link and code marks of the schema
LinkMark(href, title) == [type |-> "link", href |-> href, title |-> title]
CodeMark == [type |-> "code"]

\* parent.child(index), index from 0
Child(parent, index) == parent.content[index + 1]

\* mark.isInSet(marks)
IsInSet(mark, marks) == \E k \in 1..Len(marks) : marks[k] = mark

\* the characters of \w that the texts of the model use
WordChars == {"a", "b", "t", "u", "x", "_"} \cup Digits

\* /^\w+:/.test(href)
HasScheme(href) ==
    \E k \in 2..Len(href) : href[k] = ":" /\ \A j \in 1..(k - 1) : href[j] \in WordChars

\* the last two tests of isPlainURL: the edge of the parent, or a sibling
\* on that side without the link
PlainAtEdge(link, parent, index, side) ==
    IF index = (IF side < 0 THEN 1 ELSE Len(parent.content) - 1) THEN TRUE
    ELSE ~IsInSet(link, Child(parent, index + (IF side < 0 THEN -2 ELSE 1)).marks)

\* the test of the content: a text that is the href, the link its last mark
PlainContent(link, content) ==
    /\ IsText(content)
    /\ content.text = link.href
    /\ content.marks # <<>>
    /\ content.marks[Len(content.marks)] = link

isPlainURL(link, parent, index, side) ==
    IF Truthy(link.title) \/ ~HasScheme(link.href) THEN FALSE
    ELSE IF ~PlainContent(link, Child(parent, index + (IF side < 0 THEN -1 ELSE 0))) THEN FALSE
    ELSE PlainAtEdge(link, parent, index, side)

\* the length of the longest run of backticks in the text
LongestTicks(text) ==
    MaxOf({n \in 1..Len(text) : \E i \in 1..(Len(text) - n + 1) :
                                  \A k \in i..(i + n - 1) : text[k] = BT})

\* the delimiter is one backtick whatever the text holds
backticksFor_OneTick(node, side) == <<BT>>

backticksFor(node, side) ==
    LET len == IF IsText(node) /\ node.text # <<>> THEN LongestTicks(node.text) ELSE 0 IN
    (IF len > 0 /\ side > 0 THEN <<SP, BT>> ELSE <<BT>>)
    \o Repeat(BT, len)
    \o (IF len > 0 /\ side < 0 THEN <<SP>> ELSE <<>>)

\* replace(/"/g, '\\"') on the title of a link
EscQuotes(str) ==
    Concat([k \in 1..Len(str) |-> IF str[k] = DQ THEN <<BS, DQ>> ELSE <<str[k]>>])

\* the comment text is written as it is, not escaped
MarkOpen_TextNotEscaped(mark, parent, index) ==
    CASE mark.type = "comment" ->
            COMMENT_OPEN \o (IF Truthy(mark.text) THEN mark.text ELSE <<>>) \o COMMENT_OPEN_END
      [] mark.type = "link" -> IF isPlainURL(mark, parent, index, 1) THEN <<"<">> ELSE <<"[">>
      [] mark.type = "code" -> backticksFor(Child(parent, index), -1)
      [] OTHER -> <<>>

\* markString(mark, true, parent, index) for the marks of the model: the
\* comment, link and code marks; index from 0
MarkOpen(mark, parent, index) ==
    CASE mark.type = "comment" ->
            COMMENT_OPEN
            \o escapeCommentText(IF Truthy(mark.text) THEN mark.text ELSE <<>>)
            \o COMMENT_OPEN_END
      [] mark.type = "link" -> IF isPlainURL(mark, parent, index, 1) THEN <<"<">> ELSE <<"[">>
      [] mark.type = "code" -> backticksFor(Child(parent, index), -1)
      [] OTHER -> <<>>

\* markString(mark, false, parent, index)
MarkClose(mark, parent, index) ==
    CASE mark.type = "comment" -> COMMENT_CLOSE
      [] mark.type = "link" ->
            IF isPlainURL(mark, parent, index, -1) THEN <<">">>
            ELSE <<"]", "(">> \o mark.href
                 \o (IF Truthy(mark.title) THEN <<SP, DQ>> \o EscQuotes(mark.title) \o <<DQ>>
                     ELSE <<>>)
                 \o <<")">>
      [] mark.type = "code" -> backticksFor(Child(parent, index - 1), 1)
      [] OTHER -> <<>>

\* length of the common prefix of two mark sequences
RECURSIVE KeepLen(_, _)
KeepLen(active, marks) ==
    IF active # <<>> /\ marks # <<>> /\ Head(active) = Head(marks)
    THEN 1 + KeepLen(Tail(active), Tail(marks))
    ELSE 0

\* closing strings of active[keep+1..], innermost first
RECURSIVE CloseMarks(_, _, _, _)
CloseMarks(active, keep, parent, index) ==
    IF Len(active) <= keep THEN <<>>
    ELSE MarkClose(active[Len(active)], parent, index)
         \o CloseMarks(SubSeq(active, 1, Len(active) - 1), keep, parent, index)

HardBreak == [type |-> "hard_break", marks |-> <<>>]

\* the break is written only when the very next sibling is not a break
HardBreakText_NextSiblingOnly(parent, index) ==
    IF index + 1 <= Len(parent.content) /\ parent.content[index + 1].type # "hard_break"
    THEN <<SP, SP, NL>> ELSE <<>>

\* the hard_break renderer for the child at index (1-based): two spaces
\* and a line feed when a sibling after it is not a hard_break
HardBreakText(parent, index) ==
    IF \E i \in (index + 1)..Len(parent.content) : parent.content[i].type # "hard_break"
    THEN <<SP, SP, NL>> ELSE <<>>

\* the marks of a node that are opened and closed around it: all of them,
\* but for a last mark that switches escaping off (the code mark)
NoEsc(node) == node.marks # <<>> /\ node.marks[Len(node.marks)].type = "code"
OuterMarks(node) ==
    IF NoEsc(node) THEN SubSeq(node.marks, 1, Len(node.marks) - 1) ELSE node.marks

\* the node as it is rendered inside its marks: a text under a last mark
\* that switches escaping off is written with that mark around it and no
\* escapes; index from 1
InlineBody(parent, index) ==
    LET node == parent.content[index] IN
    IF NoEsc(node) /\ IsText(node)
    THEN MarkOpen(node.marks[Len(node.marks)], parent, index - 1)
         \o node.text
         \o MarkClose(node.marks[Len(node.marks)], parent, index)
    ELSE CASE node.type = "text" -> Esc(node.text)
           [] node.type = "image" -> ImageText(node.attrs)
           [] node.type = "hard_break" -> HardBreakText(parent, index)
           [] OTHER -> <<>>

\* renderInline from child index on (from 1), with the marks that are
\* open.  The marks of the model neither mix nor expel whitespace, so a
\* node closes the open marks it does not carry, opens its other marks and
\* is rendered; the mark functions are given the index from 0, the closing
\* ones that of the node after the marked text.
RECURSIVE RenderInlineFrom(_, _, _, _)
RenderInlineFrom(st, parent, index, active) ==
    IF index > Len(parent.content)
    THEN IF active = <<>> THEN st ELSE Write(st, CloseMarks(active, 0, parent, index - 1))
    ELSE LET marks == OuterMarks(parent.content[index])
             keep == KeepLen(active, marks)
             closing == CloseMarks(active, keep, parent, index - 1)
             opening == Concat([k \in 1..(Len(marks) - keep) |->
                                  MarkOpen(marks[keep + k], parent, index - 1)])
             body == InlineBody(parent, index)
         IN  RenderInlineFrom(IF closing \o opening \o body = <<>> THEN st
                              ELSE Write(st, closing \o opening \o body),
                              parent, index + 1, marks)

\* the paragraph renderer
RenderParagraph(st, node) == CloseBlock(RenderInlineFrom(st, node, 1, <<>>))

\* const start = node.attrs.order || 1
ListStart(node) == IF node.attrs.order = 0 THEN 1 ELSE node.attrs.order

\* maxW: the number of digits of the number of the last item
ListMaxW(node) == Len(IntToStr(ListStart(node) + Len(node.content) - 1))

\* the number comes first and the spaces after it
OrderedListMarker_PadEnd(node, i) ==
    IntToStr(ListStart(node) + i)
    \o Repeat(SP, ListMaxW(node) - Len(IntToStr(ListStart(node) + i)))
    \o <<".", SP>>

\* firstDelim(i) of the ordered_list renderer, i from 0
OrderedListMarker(node, i) ==
    Repeat(SP, ListMaxW(node) - Len(IntToStr(ListStart(node) + i)))
    \o IntToStr(ListStart(node) + i) \o <<".", SP>>

RECURSIVE RenderBlocks(_, _, _)

\* wrapBlock(delim, firstDelim(i), node, f) for the items from the i-th on
\* (i from 1): the marker is written, the prefix grows by space while the
\* item is rendered, and the list is the closed block
RECURSIVE RenderListItems(_, _, _, _)
RenderListItems(st, node, i, space) ==
    IF i > Len(node.content) THEN st
    ELSE RenderListItems(
            [RenderBlocks([Write(st, OrderedListMarker(node, i - 1)) EXCEPT !.delim = @ \o space],
                          node.content[i].content, 1)
                EXCEPT !.delim = st.delim, !.closed = TRUE, !.closedType = node.type],
            node, i + 1, space)

\* the ordered_list renderer: renderList of a list that is not tight
RenderOrderedList(st, node) ==
    RenderListItems(IF st.closed /\ st.closedType = node.type THEN FlushCloseOf(st, 3) ELSE st,
                    node, 1, Repeat(SP, ListMaxW(node) + 2))

\* state.text(text, false) from line i of the text on: write() before each
\* line, the line as it is, and a newline between two lines
RECURSIVE RenderCodeLines(_, _, _)
RenderCodeLines(st, lines, i) ==
    IF i > Len(lines) THEN st
    ELSE RenderCodeLines([Write(st, lines[i]) EXCEPT !.out = IF i # Len(lines) THEN @ \o <<NL>> ELSE @],
                         lines, i + 1)

\* state.ensureNewLine()
EnsureNewLine(st) == IF AtBlank(st.out) THEN st ELSE [st EXCEPT !.out = @ \o <<NL>>]

FENCE == <<BT, BT, BT>>

\* the code_block renderer
RenderCodeBlock(st, node) ==
    CloseBlock(
        Write(EnsureNewLine(RenderCodeLines(Write(st, FENCE \o node.attrs.language \o <<NL>>),
                                            Split(TextContent(node), NL), 1)),
              FENCE))

\* renderContent of the document: each block in turn
RenderBlocks(st, blocks, i) ==
    IF i > Len(blocks) THEN st
    ELSE RenderBlocks(
            CASE blocks[i].type = "paragraph" -> RenderParagraph(st, blocks[i])
              [] blocks[i].type = "table" -> serializeTable(st, blocks[i])
              [] blocks[i].type = "ordered_list" -> RenderOrderedList(st, blocks[i])
              [] blocks[i].type = "code_block" -> RenderCodeBlock(st, blocks[i])
              [] OTHER -> st,
            blocks, i + 1)

\* markdownSerializer.serialize(doc)
Serialize(d) == RenderBlocks(NewState, d.content, 1).out

\* ------------------------------------------------------------ tokens
\* A block token of the tokenizer: its type, its line span map = <<first,
\* end>> (0-based, end exclusive) or Null, its text content and, for an
\* inline token, its children.
Token(type, map, content, children) ==
    [type |-> type, map |-> map, content |-> content, children |-> children]

\* A child of an inline token: a text run, or an image with its attributes
InlineText(content) == [type |-> "text", content |-> content]
InlineImage(src, title, alt) ==
    [type |-> "image", content |-> alt, src |-> src, title |-> title]

\* ------------------------------------------- the tokenizer (md.parse)
\* markdown-it is a dependency of the converter.  Its rules are modelled
\* for the markdown the model feeds it: blank lines, one-line paragraphs of
\* text and images, and GFM pipe tables (no indentation, no backslash
\* before a pipe, no block construct other than these).

IsBlankLine(line) == Trim(line) = <<>>

\* /^:?-+:?$/
IsAlignCell(t) ==
    LET a == IF t # <<>> /\ Head(t) = ":" THEN Tail(t) ELSE t
        b == IF a # <<>> /\ a[Len(a)] = ":" THEN SubSeq(a, 1, Len(a) - 1) ELSE a
    IN  b # <<>> /\ \A i \in 1..Len(b) : b[i] = "-"

\* the number of columns of the delimiter row whose split at the pipes is
\* cols, or -1 when the line is none
AlignColumnsOf(line, cols) ==
    IF \/ Len(line) < 2
       \/ line[1] \notin {PIPE, "-", ":"}
       \/ line[2] \notin {PIPE, "-", ":", SP}
       \/ (line[1] = "-" /\ line[2] = SP)
       \/ \E i \in 1..Len(line) : line[i] \notin {PIPE, "-", ":", SP}
       \/ \E i \in 2..(Len(cols) - 1) : Trim(cols[i]) = <<>>
       \/ \E i \in 1..Len(cols) : Trim(cols[i]) # <<>> /\ ~IsAlignCell(Trim(cols[i]))
    THEN -1
    ELSE Cardinality({i \in 1..Len(cols) : Trim(cols[i]) # <<>>})

AlignColumns(line) == AlignColumnsOf(line, Split(line, PIPE))

\* columns.shift() and columns.pop() of the table rule, done when the first
\* or last column is empty
ShiftEmpty(cols) == IF cols # <<>> /\ Head(cols) = <<>> THEN Tail(cols) ELSE cols
PopEmpty(cols) ==
    IF cols # <<>> /\ cols[Len(cols)] = <<>> THEN SubSeq(cols, 1, Len(cols) - 1) ELSE cols

\* escapedSplit(lineText) without its first and last column when empty
RowColumns(line) == PopEmpty(ShiftEmpty(Split(Trim(line), PIPE)))

\* a header row of count columns over a delimiter row of aligns columns
HeaderFits(line, count, aligns) ==
    /\ aligns # -1
    /\ \E i \in 1..Len(line) : line[i] = PIPE
    /\ count # 0
    /\ count = aligns

\* the table rule accepts line l (1-based index into lines) as a header row
TableAt(lines, l) ==
    /\ l + 1 <= Len(lines)
    /\ HeaderFits(lines[l], Len(RowColumns(lines[l])), AlignColumns(lines[l + 1]))

\* first line after the body rows of the table whose header is line l
RECURSIVE TableEnd(_, _)
TableEnd(lines, k) ==
    IF k > Len(lines) \/ IsBlankLine(lines[k]) THEN k ELSE TableEnd(lines, k + 1)

\* backslash escapes and images of the inline rules: the children of an
\* inline token for content from position i on, cur the text run so far
Punct == {BS, DQ, "*", "[", "]", "(", ")", "!", "<", ">", "|", "_", "~", BT, "-", "&", ";", "=", "/", ".", ":", "%"}

FlushText(cur) == IF cur = <<>> THEN <<>> ELSE <<InlineText(cur)>>

\* ![alt](src) or ![alt](src "title") at position i: the image token and
\* the position after it; next = 0 when there is no image at i.  alt has
\* no brackets, src no space and no parenthesis, title no double quote.
NoImage == [tok |-> InlineText(<<>>), next |-> 0]

Titled(rest) == Len(rest) >= 2 /\ rest[1] = DQ /\ rest[Len(rest)] = DQ

\* the image of alt, the destination src and what follows it before the
\* parenthesis at rp
ImageOf(alt, src, rest, rp) ==
    IF src = <<>> \/ (rest # <<>> /\ ~Titled(rest)) THEN NoImage
    ELSE [tok |-> InlineImage(src,
                              IF Titled(rest) THEN SubSeq(rest, 2, Len(rest) - 1) ELSE <<>>,
                              alt),
          next |-> rp + 1]

\* inside is the text between the parentheses, sp its first space (0: none)
ImageInside(alt, inside, sp, rp) ==
    ImageOf(alt,
            IF sp = 0 THEN inside ELSE SubSeq(inside, 1, sp - 1),
            IF sp = 0 THEN <<>> ELSE Trim(SubSeq(inside, sp, Len(inside))),
            rp)

\* close is the index of "](" and rp of the next ")" (0: none)
ImageBetween(s, i, close, rp) ==
    IF close = 0 \/ rp = 0 \/ \E k \in (i + 2)..(close - 1) : s[k] \in {"[", "]"}
    THEN NoImage
    ELSE ImageInside(SubSeq(s, i + 2, close - 1), SubSeq(s, close + 2, rp - 1),
                     IndexFrom(SubSeq(s, close + 2, rp - 1), <<SP>>, 1), rp)

ImageFrom(s, i, close) ==
    ImageBetween(s, i, close, IF close = 0 THEN 0 ELSE IndexFrom(s, <<")">>, close + 2))

ImageAt(s, i) ==
    IF ~StartsAt(s, <<"!", "[">>, i) THEN NoImage
    ELSE ImageFrom(s, i, IndexFrom(s, <<"]", "(">>, i + 2))

\* a backslash escape at position k
EscapeAt(s, k) == s[k] = BS /\ k + 1 <= Len(s) /\ s[k + 1] \in Punct

RECURSIVE InlineFrom(_, _, _)
\* k is the position of the next escape or image, Len(s) + 1 when there is
\* none; cur holds the text before it
InlineAt(s, k, cur) ==
    IF k > Len(s) THEN FlushText(cur)
    ELSE IF EscapeAt(s, k) THEN InlineFrom(s, k + 2, Append(cur, s[k + 1]))
    ELSE FlushText(cur) \o <<ImageAt(s, k).tok>> \o InlineFrom(s, ImageAt(s, k).next, <<>>)

\* the text up to position k joins the text run
InlineRun(s, i, k, cur) == InlineAt(s, k, cur \o SubSeq(s, i, k - 1))

InlineFrom(s, i, cur) ==
    InlineRun(s, i,
              LeastOr({k \in i..Len(s) : EscapeAt(s, k) \/ ImageAt(s, k).next # 0}, Len(s) + 1),
              cur)

InlineChildren(content) == InlineFrom(content, 1, <<>>)

InlineToken(map, content) == Token("inline", map, content, InlineChildren(content))

\* the tokens of one table row whose columns are cols: cells 1..count, ''
\* where the row has no such column; l is the line of the row (1-based)
RowTokens(cols, count, open, close, l) ==
    <<Token("tr_open", <<l - 1, l>>, <<>>, <<>>)>>
    \o Concat([c \in 1..count |->
                 <<Token(open, Null, <<>>, <<>>),
                   InlineToken(Null, IF c <= Len(cols) THEN Trim(cols[c]) ELSE <<>>),
                   Token(close, Null, <<>>, <<>>)>>])
    \o <<Token("tr_close", Null, <<>>, <<>>)>>

\* the tokens of a table from the tokens of its rows, header row first
TableTokensOf(l, e, rows) ==
    <<Token("table_open", <<l - 1, e - 1>>, <<>>, <<>>),
      Token("thead_open", <<l - 1, l>>, <<>>, <<>>)>>
    \o rows[1]
    \o <<Token("thead_close", Null, <<>>, <<>>)>>
    \o (IF Len(rows) > 1
        THEN <<Token("tbody_open", <<l + 1, e - 1>>, <<>>, <<>>)>>
             \o Concat(Tail(rows))
             \o <<Token("tbody_close", Null, <<>>, <<>>)>>
        ELSE <<>>)
    \o <<Token("table_close", Null, <<>>, <<>>)>>

\* the rows of the table: line l, then lines l + 2 .. e - 1, each cut to
\* the count columns of the header row
TableRowsOf(lines, l, e, count) ==
    [k \in 1..(e - l - 1) |->
        RowTokens(RowColumns(lines[IF k = 1 THEN l ELSE l + k]), count,
                  IF k = 1 THEN "th_open" ELSE "td_open",
                  IF k = 1 THEN "th_close" ELSE "td_close",
                  IF k = 1 THEN l ELSE l + k)]

\* the tokens of the table whose header row is line l and whose body ends
\* before line e
TableTokens(lines, l, e) ==
    TableTokensOf(l, e, TableRowsOf(lines, l, e, Len(RowColumns(lines[l]))))

\* the number of backticks the line begins with, counted from position k
RECURSIVE TickRun(_, _)
TickRun(line, k) ==
    IF k <= Len(line) /\ line[k] = BT THEN TickRun(line, k + 1) ELSE k - 1

\* the fence rule of markdown-it: three or more backticks open a fence when
\* no backtick follows them on the line
IsFenceOpen(line) ==
    TickRun(line, 1) >= 3 /\ \A k \in (TickRun(line, 1) + 1)..Len(line) : line[k] # BT

\* a line of at least n backticks and nothing else closes the fence
IsFenceClose(line, n) ==
    TickRun(line, 1) >= n /\ Trim(SubSeq(line, TickRun(line, 1) + 1, Len(line))) = <<>>

\* the line that closes the fence opened before line k, Len(lines) + 1 when
\* the fence runs to the end of the text
FenceClose(lines, k, n) ==
    LeastOr({j \in k..Len(lines) : IsFenceClose(lines[j], n)}, Len(lines) + 1)

\* the fence token of the fence opened on line l and closed on line c: its
\* content is the lines between, each with its newline, and info the rest
\* of the opening line
FenceToken(lines, l, c) ==
    [type |-> "fence", map |-> <<l - 1, Min(c, Len(lines))>>,
     content |-> Concat([k \in 1..(c - l - 1) |-> lines[l + k] \o <<NL>>]),
     children |-> <<>>,
     info |-> Trim(SubSeq(lines[l], TickRun(lines[l], 1) + 1, Len(lines[l])))]

\* the blockquote rule of markdown-it: a line that begins with '>'
IsQuoteLine(line) == line # <<>> /\ line[1] = ">"

\* the line without the marker and the one space after it
Unquoted(line) ==
    SubSeq(line, IF Len(line) >= 2 /\ line[2] = SP THEN 3 ELSE 2, Len(line))

RECURSIVE QuoteEnd(_, _)
QuoteEnd(lines, k) ==
    IF k > Len(lines) \/ ~IsQuoteLine(lines[k]) THEN k ELSE QuoteEnd(lines, k + 1)

\* the maps of the tokens moved down by d lines
ShiftMap(toks, d) ==
    [k \in 1..Len(toks) |->
        IF toks[k].map = Null THEN toks[k]
        ELSE [toks[k] EXCEPT !.map = <<@[1] + d, @[2] + d>>]]

\* first line at or after k that ends a paragraph begun before it
RECURSIVE ParagraphEnd(_, _)
ParagraphEnd(lines, k) ==
    IF k > Len(lines) \/ IsBlankLine(lines[k]) \/ TableAt(lines, k) \/ IsFenceOpen(lines[k])
       \/ IsQuoteLine(lines[k]) THEN k
    ELSE ParagraphEnd(lines, k + 1)

\* the number of digits the line begins with, counted from position k
RECURSIVE DigitRun(_, _)
DigitRun(line, k) ==
    IF k <= Len(line) /\ line[k] \in Digits THEN DigitRun(line, k + 1) ELSE k - 1

\* a line that begins an item of an ordered list: up to nine digits, a
\* dot, a space and the text of the item
IsListLine(line) ==
    /\ DigitRun(line, 1) \in 1..9
    /\ Len(line) >= DigitRun(line, 1) + 3
    /\ line[DigitRun(line, 1) + 1] = "."
    /\ line[DigitRun(line, 1) + 2] = SP
    /\ Trim(SubSeq(line, DigitRun(line, 1) + 3, Len(line))) # <<>>

RECURSIVE ListEnd(_, _)
ListEnd(lines, k) ==
    IF k > Len(lines) \/ ~IsListLine(lines[k]) THEN k ELSE ListEnd(lines, k + 1)

\* no start attribute on the token
NoStart == -1

\* the list rule of markdown-it: the number of the first marker, as a
\* number, is the start attribute of ordered_list_open unless it is 1
ListOpenToken(map, markerValue) ==
    [type |-> "ordered_list_open", map |-> map, content |-> <<>>, children |-> <<>>,
     start |-> IF markerValue # 1 THEN markerValue ELSE NoStart]

\* the tokens of the item of line l
ListItemTokens(line, l) ==
    <<Token("list_item_open", <<l - 1, l>>, <<>>, <<>>),
      Token("paragraph_open", <<l - 1, l>>, <<>>, <<>>),
      InlineToken(<<l - 1, l>>, Trim(SubSeq(line, DigitRun(line, 1) + 3, Len(line)))),
      Token("paragraph_close", Null, <<>>, <<>>),
      Token("list_item_close", Null, <<>>, <<>>)>>

\* the tokens of the tight ordered list of lines l .. e - 1
ListTokens(lines, l, e) ==
    <<ListOpenToken(<<l - 1, e - 1>>, ParseInt(SubSeq(lines[l], 1, DigitRun(lines[l], 1))))>>
    \o Concat([k \in 1..(e - l) |-> ListItemTokens(lines[l + k - 1], l + k - 1)])
    \o <<Token("ordered_list_close", Null, <<>>, <<>>)>>

RECURSIVE BlockTokens(_, _)

\* the ordered list of lines l .. e - 1, then the blocks from line e
ListBlock(lines, l, e) == ListTokens(lines, l, e) \o BlockTokens(lines, e)

\* the blockquote of lines l .. e - 1: the tokens of the lines without
\* their markers between blockquote_open and blockquote_close, every map in
\* lines of the whole text; then the blocks from line e
QuoteBlock(lines, l, e) ==
    <<Token("blockquote_open", <<l - 1, e - 1>>, <<>>, <<>>)>>
    \o ShiftMap(BlockTokens([k \in 1..(e - l) |-> Unquoted(lines[l + k - 1])], 1), l - 1)
    \o <<Token("blockquote_close", Null, <<>>, <<>>)>>
    \o BlockTokens(lines, e)

\* the fence of lines l .. c, then the blocks from line c + 1
FenceBlock(lines, l, c) == <<FenceToken(lines, l, c)>> \o BlockTokens(lines, c + 1)

\* the table of lines l .. e - 1, then the blocks from line e
TableBlock(lines, l, e) == TableTokens(lines, l, e) \o BlockTokens(lines, e)

\* the paragraph of lines l .. e - 1, then the blocks from line e
ParagraphBlock(lines, l, e) ==
    <<Token("paragraph_open", <<l - 1, e - 1>>, <<>>, <<>>),
      InlineToken(<<l - 1, e - 1>>,
                  Join([k \in 1..(e - l) |-> Trim(lines[l + k - 1])], <<NL>>)),
      Token("paragraph_close", Null, <<>>, <<>>)>>
    \o BlockTokens(lines, e)

BlockTokens(lines, l) ==
    IF l > Len(lines) THEN <<>>
    ELSE IF IsBlankLine(lines[l]) THEN BlockTokens(lines, l + 1)
    ELSE IF IsQuoteLine(lines[l]) THEN QuoteBlock(lines, l, QuoteEnd(lines, l + 1))
    ELSE IF IsFenceOpen(lines[l]) THEN FenceBlock(lines, l, FenceClose(lines, l + 1, TickRun(lines[l], 1)))
    ELSE IF TableAt(lines, l) THEN TableBlock(lines, l, TableEnd(lines, l + 2))
    ELSE IF IsListLine(lines[l]) THEN ListBlock(lines, l, ListEnd(lines, l + 1))
    ELSE ParagraphBlock(lines, l, ParagraphEnd(lines, l + 1))

\* md.parse(content, {})
MdParse(content) == BlockTokens(Split(content, NL), 1)

\* ------------------------------------------------ preprocessComments
SOH == "SOH"
COMMENT_START_MARKER == <<SOH, "C", "M", "T", "S", SOH>>
COMMENT_END_MARKER == <<SOH, "C", "M", "T", "E", SOH>>

\* a Map with no entry
EmptyMap == <<>>

\* end of the longest run of (?:[^"\\]|\\.) from position q: the index of
\* the first character that is not part of the run
RECURSIVE EscapedEnd(_, _)
EscapedEnd(s, q) ==
    IF q > Len(s) \/ s[q] = DQ THEN q
    ELSE IF s[q] = BS
    THEN IF q + 1 <= Len(s) /\ s[q + 1] \notin {NL, CR} THEN EscapedEnd(s, q + 2) ELSE q
    ELSE EscapedEnd(s, q + 1)

\* commentRegex anchored at position i
NoCommentMatch(i) ==
    [ok |-> FALSE, escapedText |-> <<>>, highlightedText |-> <<>>, next |-> i]

\* the escaped text is s[q..r-1], the highlighted text s[h..e-1]
CommentMatchOf(s, i, q, r, h, e) ==
    IF StartsAt(s, COMMENT_OPEN_END, r) /\ e # 0
    THEN [ok |-> TRUE, escapedText |-> SubSeq(s, q, r - 1),
          highlightedText |-> SubSeq(s, h, e - 1), next |-> e + Len(COMMENT_CLOSE)]
    ELSE NoCommentMatch(i)

CommentMatchFrom(s, i, q, r) ==
    CommentMatchOf(s, i, q, r, r + Len(COMMENT_OPEN_END),
                   IndexFrom(s, COMMENT_CLOSE, r + Len(COMMENT_OPEN_END)))

CommentMatchAt(s, i) ==
    IF StartsAt(s, COMMENT_OPEN, i)
    THEN CommentMatchFrom(s, i, i + Len(COMMENT_OPEN), EscapedEnd(s, i + Len(COMMENT_OPEN)))
    ELSE NoCommentMatch(i)

\* content.replace(commentRegex, ...) from position i on; idx is
\* commentIndex, acc the text produced so far, map is commentTexts
RECURSIVE PreprocessCommentsFrom(_, _, _, _, _)
\* the replacer function on the match m
ReplaceComment(s, idx, acc, map, m) ==
    PreprocessCommentsFrom(s, m.next, idx + 1,
        acc \o COMMENT_START_MARKER \o IntToStr(idx) \o COMMENT_START_MARKER
            \o m.highlightedText
            \o COMMENT_END_MARKER \o IntToStr(idx) \o COMMENT_END_MARKER,
        (idx :> unescapeCommentText(m.escapedText)) @@ map)

\* k is the position of the next match, 0 when there is none
ReplaceCommentAt(s, i, idx, acc, map, k) ==
    IF k = 0
    THEN [content |-> acc \o SubSeq(s, i, Len(s)), commentTexts |-> map, commentIndex |-> idx]
    ELSE ReplaceComment(s, idx, acc \o SubSeq(s, i, k - 1), map, CommentMatchAt(s, k))

PreprocessCommentsFrom(s, i, idx, acc, map) ==
    ReplaceCommentAt(s, i, idx, acc, map,
                     LeastOr({k \in i..Len(s) : CommentMatchAt(s, k).ok}, 0))

preprocessComments(content) == PreprocessCommentsFrom(content, 1, 0, <<>>, EmptyMap)

\* ------------------------------------------------ preprocessHtmlImages
Quotes == {DQ, "'"}
\* first index at or after k of a character of S, Len(a) + 1 when none
FirstIn(a, k, S) == LeastOr({j \in k..Len(a) : a[j] \in S}, Max(k, Len(a) + 1))

\* first index at or after k of a character not in S, Len(a) + 1 when none
FirstNotIn(a, k, S) == LeastOr({j \in k..Len(a) : a[j] \notin S}, Max(k, Len(a) + 1))

NoAttr == [found |-> FALSE, value |-> <<>>]

\* /name=["']([^"']*)["']/ (min = 0) or /name=["']([^"']+)["']/ (min = 1)
\* anchored at position i: q is the index of the opening quote and k of the
\* first quote after it
QuotedAttrOk(a, name, min, i, q, k) ==
    /\ StartsAt(a, name \o <<"=">>, i)
    /\ q <= Len(a) /\ a[q] \in Quotes
    /\ k <= Len(a) /\ k - q - 1 >= min

QuotedAttrAt(a, name, min, i) ==
    QuotedAttrOk(a, name, min, i, i + Len(name) + 1, FirstIn(a, i + Len(name) + 2, Quotes))

\* the capture group of the match at position j; no match for j = 0
QuotedValue(a, q, j) ==
    IF j = 0 THEN NoAttr
    ELSE [found |-> TRUE, value |-> SubSeq(a, q + 1, FirstIn(a, q + 1, Quotes) - 1)]

\* the first match at or after position i
QuotedAttrFrom(a, name, min, i) ==
    QuotedValue(a,
                LeastOr({j \in i..Len(a) : QuotedAttrAt(a, name, min, j)}, 0) + Len(name) + 1,
                LeastOr({j \in i..Len(a) : QuotedAttrAt(a, name, min, j)}, 0))

WIDTH_EQ == <<"w", "i", "d", "t", "h", "=">>

\* /width=["'](\d+)%?["']/ anchored at position i: q is the index of the
\* opening quote and d of the first character after the digits
WidthAttrOk(a, i, q, d) ==
    /\ StartsAt(a, WIDTH_EQ, i)
    /\ q <= Len(a) /\ a[q] \in Quotes
    /\ d > q + 1
    /\ (IF d <= Len(a) /\ a[d] = "%" THEN d + 1 ELSE d) <= Len(a)
    /\ a[IF d <= Len(a) /\ a[d] = "%" THEN d + 1 ELSE d] \in Quotes

WidthAttrAt(a, i) ==
    WidthAttrOk(a, i, i + Len(WIDTH_EQ), FirstNotIn(a, i + Len(WIDTH_EQ) + 1, Digits))

\* the capture group of the match at position j; no match for j = 0
WidthValue(a, q, j) ==
    IF j = 0 THEN NoAttr
    ELSE [found |-> TRUE, value |-> SubSeq(a, q + 1, FirstNotIn(a, q + 1, Digits) - 1)]

\* the first match at or after position i
WidthAttrFrom(a, i) ==
    WidthValue(a,
               LeastOr({j \in i..Len(a) : WidthAttrAt(a, j)}, 0) + Len(WIDTH_EQ),
               LeastOr({j \in i..Len(a) : WidthAttrAt(a, j)}, 0))

\* parseHtmlImgTag on a string that preprocessHtmlImages matched: <img,
\* white space, then attrsStr up to the first >.  ok is FALSE for null;
\* an absent alt, title or align is Null and an absent width is 0.
parseHtmlImgTag(html) ==
    LET a0 == FirstNotIn(html, Len(IMG_OPEN) + 1, WS)
        attrsStr == SubSeq(html, a0, Len(html) - 1)
        src == QuotedAttrFrom(attrsStr, <<"s", "r", "c">>, 1, 1)
        alt == QuotedAttrFrom(attrsStr, <<"a", "l", "t">>, 0, 1)
        title == QuotedAttrFrom(attrsStr, <<"t", "i", "t", "l", "e">>, 0, 1)
        align == QuotedAttrFrom(attrsStr, <<"a", "l", "i", "g", "n">>, 0, 1)
        width == WidthAttrFrom(attrsStr, 1)
    IN  [ok |-> src.found,
         src |-> src.value,
         alt |-> IF alt.found THEN alt.value ELSE Null,
         title |-> IF title.found THEN title.value ELSE Null,
         align |-> IF align.found THEN align.value ELSE Null,
         width |-> IF width.found THEN ParseInt(width.value) ELSE 0]

\* htmlImgRegex /<img\s+[^>]*>/ anchored at position i: the index of the
\* closing >, or 0
ImgTagEnd(s, i) ==
    LET w == i + Len(IMG_OPEN)
        gt == FirstIn(s, w + 1, {">"})
    IN  IF StartsAt(s, IMG_OPEN, i) /\ w <= Len(s) /\ s[w] \in WS /\ gt <= Len(s)
        THEN gt ELSE 0

\* the markdown image a parsed tag is rewritten to
ImageMarkdown(parsed) ==
    <<"!", "[">> \o (IF Truthy(parsed.alt) THEN parsed.alt ELSE <<>>)
    \o <<"]", "(">> \o parsed.src
    \o (IF Truthy(parsed.title) THEN <<SP, DQ>> \o parsed.title \o <<DQ>> ELSE <<>>)
    \o <<")">>

\* the tag has an align other than 'inline' or a width other than 100
HasExtraAttrs(parsed) ==
    \/ (Truthy(parsed.align) /\ parsed.align # INLINE)
    \/ (parsed.width # 0 /\ parsed.width # 100)

\* content.replace(htmlImgRegex, ...) from position i on; acc is the text
\* produced so far, map is imgAttrs
RECURSIVE PreprocessHtmlImagesFrom(_, _, _, _)
\* the replacer function on match, which ends at gt and parses to parsed
ReplaceImgTag(s, gt, acc, map, match, parsed) ==
    IF ~parsed.ok THEN PreprocessHtmlImagesFrom(s, gt + 1, acc \o match, map)
    ELSE PreprocessHtmlImagesFrom(s, gt + 1, acc \o ImageMarkdown(parsed),
            IF HasExtraAttrs(parsed)
            THEN (parsed.src :> [align |-> parsed.align, width |-> parsed.width]) @@ map
            ELSE map)

\* k is the position of the next tag, 0 when there is none
ReplaceAt(s, i, k, acc, map) ==
    IF k = 0 THEN [content |-> acc \o SubSeq(s, i, Len(s)), imgAttrs |-> map]
    ELSE ReplaceImgTag(s, ImgTagEnd(s, k), acc \o SubSeq(s, i, k - 1), map,
                       SubSeq(s, k, ImgTagEnd(s, k)),
                       parseHtmlImgTag(SubSeq(s, k, ImgTagEnd(s, k))))

PreprocessHtmlImagesFrom(s, i, acc, map) ==
    ReplaceAt(s, i, LeastOr({k \in i..Len(s) : ImgTagEnd(s, k) # 0}, 0), acc, map)

\* preprocessHtmlImages: imgAttrs starts as a new Map()
preprocessHtmlImages(content) == PreprocessHtmlImagesFrom(content, 1, <<>>, EmptyMap)

\* ---------------------------------------------------- parseTableTokens
\* Fragment.fromArray: adjacent text nodes with the same marks are joined
RECURSIVE JoinText(_)
JoinText(nodes) ==
    IF Len(nodes) < 2 THEN nodes
    ELSE IF IsText(nodes[1]) /\ IsText(nodes[2]) /\ nodes[1].marks = nodes[2].marks
    THEN JoinText(<<TextNode(nodes[1].text \o nodes[2].text, nodes[1].marks)>>
                  \o SubSeq(nodes, 3, Len(nodes)))
    ELSE <<nodes[1]>> \o JoinText(Tail(nodes))

\* an inline child of the tokenizer that is neither text nor image
InlineOther(type, content) == [type |-> type, content |-> content]

\* schema.text(child.content) of prosemirror-model throws a RangeError
\* ("Empty text nodes are not allowed") for a text child of empty content
EmptyTextChild(token) ==
    \E k \in 1..Len(token.children) :
        token.children[k].type = "text" /\ token.children[k].content = <<>>

\* the text nodes an inline token adds to the current cell
CellInlineNodes(token) ==
    LET texts == SelectSeq(token.children, LAMBDA c : c.type = "text") IN
    [k \in 1..Len(texts) |-> TextNode(texts[k].content, <<>>)]

\* the local variables of parseTableTokens; currentCellType is Null or a
\* cell type; done says that the function has returned result, thrown
\* that it has ended by an exception
TableAcc0 ==
    [rows |-> <<>>, currentRow |-> <<>>, currentCellType |-> Null,
     currentCellContent |-> <<>>, done |-> FALSE, result |-> NullNode,
     thrown |-> FALSE]

\* every closed cell becomes a data cell
TableStep_AllDataCells(acc, token) ==
    CASE token.type = "th_open" \/ token.type = "td_open" ->
            [acc EXCEPT !.currentCellType = <<"table_cell">>, !.currentCellContent = <<>>]
      [] token.type = "th_close" \/ token.type = "td_close" ->
            [acc EXCEPT !.currentRow =
                            IF acc.currentCellType # Null
                            THEN Append(@, TableCell(acc.currentCellType[1],
                                        <<Paragraph(JoinText(acc.currentCellContent))>>))
                            ELSE @,
                        !.currentCellType = Null,
                        !.currentCellContent = <<>>]
      [] token.type = "tr_open" -> [acc EXCEPT !.currentRow = <<>>]
      [] token.type = "tr_close" ->
            IF Len(acc.currentRow) > 0
            THEN [acc EXCEPT !.rows = Append(@, TableRow(acc.currentRow))]
            ELSE acc
      [] token.type = "table_open" -> [acc EXCEPT !.rows = <<>>]
      [] token.type = "table_close" ->
            IF Len(acc.rows) > 0
            THEN [acc EXCEPT !.done = TRUE, !.result = Table(acc.rows)]
            ELSE acc
      [] token.type = "inline" /\ acc.currentCellType # Null ->
            IF EmptyTextChild(token)
            THEN [acc EXCEPT !.thrown = TRUE]
            ELSE [acc EXCEPT !.currentCellContent = @ \o CellInlineNodes(token)]
      [] OTHER -> acc

\* one iteration of the for loop of parseTableTokens
TableStep(acc, token) ==
    CASE token.type = "table_open" -> [acc EXCEPT !.rows = <<>>]
      [] token.type = "table_close" ->
            IF Len(acc.rows) > 0
            THEN [acc EXCEPT !.done = TRUE, !.result = Table(acc.rows)]
            ELSE acc
      [] token.type = "tr_open" -> [acc EXCEPT !.currentRow = <<>>]
      [] token.type = "tr_close" ->
            IF Len(acc.currentRow) > 0
            THEN [acc EXCEPT !.rows = Append(@, TableRow(acc.currentRow))]
            ELSE acc
      [] token.type = "th_open" ->
            [acc EXCEPT !.currentCellType = <<"table_header">>, !.currentCellContent = <<>>]
      [] token.type = "td_open" ->
            [acc EXCEPT !.currentCellType = <<"table_cell">>, !.currentCellContent = <<>>]
      [] token.type = "th_close" \/ token.type = "td_close" ->
            [acc EXCEPT !.currentRow =
                            IF acc.currentCellType # Null
                            THEN Append(@, TableCell(acc.currentCellType[1],
                                        <<Paragraph(JoinText(acc.currentCellContent))>>))
                            ELSE @,
                        !.currentCellType = Null,
                        !.currentCellContent = <<>>]
      [] token.type = "inline" /\ acc.currentCellType # Null ->
            IF EmptyTextChild(token)
            THEN [acc EXCEPT !.thrown = TRUE]
            ELSE [acc EXCEPT !.currentCellContent = @ \o CellInlineNodes(token)]
      [] OTHER -> acc

RECURSIVE TableFold(_, _, _)
TableFold(acc, tokens, i) ==
    IF acc.done \/ acc.thrown \/ i > Len(tokens) THEN acc
    ELSE TableFold(TableStep(acc, tokens[i]), tokens, i + 1)

\* parseTableTokens(tokens): the table, or NullNode for null
parseTableTokens(tokens) == TableFold(TableAcc0, tokens, 1).result

\* ------------------------------------------------ getContentFromTokens
\* the line span [minLine, maxLine) of tokens[startIdx..endIdx-1] (0-based
\* indices as in the code); minLine = -1 stands for Infinity
TokenLineSpan(tokens, startIdx, endIdx) ==
    LET maps == {tokens[i + 1].map : i \in {j \in startIdx..(endIdx - 1) : tokens[j + 1].map # Null}}
    IN  IF maps = {} THEN [minLine |-> -1, maxLine |-> -1]
        ELSE [minLine |-> CHOOSE a \in {m[1] : m \in maps} : \A m \in maps : a <= m[1],
              maxLine |-> CHOOSE b \in {m[2] : m \in maps} : \A m \in maps : b >= m[2]]

\* Array.prototype.slice(a, b) on the lines, 0-based, b exclusive
SliceLines(lines, a, b) == SubSeq(lines, a + 1, Min(b, Len(lines)))

getContentFromTokens(content, tokens, startIdx, endIdx) ==
    LET span == TokenLineSpan(tokens, startIdx, endIdx) IN
    IF span.minLine = -1 \/ span.maxLine = -1 THEN <<>>
    ELSE Join(SliceLines(Split(content, NL), span.minLine, span.maxLine), <<NL>>)

\* ------------------------------------------ baseMarkdownParser.parse
\* The token handlers of the base parser on the tokens of the model: a
\* paragraph for paragraph_open .. paragraph_close, with a text node for
\* each text child and an image node for each image child; table tokens
\* are ignored.  A document without a block is filled with one empty
\* paragraph (createAndFill).
ImageFromToken(tok) ==
    Image(tok.src,
          IF tok.content # <<>> THEN tok.content ELSE Null,
          IF tok.title # <<>> THEN tok.title ELSE Null,
          INLINE, 100, Null)

InlineNodes(children) ==
    JoinText([k \in 1..Len(children) |->
                IF children[k].type = "text" THEN TextNode(children[k].content, <<>>)
                ELSE ImageFromToken(children[k])])

\* getAttrs of ordered_list: order is +(tok.attrGet('start') || 1), and
\* attrGet gives null for no attribute and the number 0 is falsy
OrderedListAttrs(tok) ==
    [order |-> IF tok.start = NoStart \/ tok.start = 0 THEN 1 ELSE tok.start]

WithoutTrailingNewline(str) ==
    IF str # <<>> /\ str[Len(str)] = NL THEN SubSeq(str, 1, Len(str) - 1) ELSE str

\* the index of ordered_list_close for the ordered_list_open at i
ListCloseAt(tokens, i) ==
    LeastOr({j \in (i + 1)..Len(tokens) : tokens[j].type = "ordered_list_close"}, Len(tokens) + 1)

\* the fence handler: language is tok.info || '', and the content without
\* its last newline is the text of the block, no text node when it is empty
CodeBlockFromFence(tok) ==
    CodeBlock(tok.info,
              IF WithoutTrailingNewline(tok.content) = <<>> THEN <<>>
              ELSE <<TextNode(WithoutTrailingNewline(tok.content), <<>>)>>)

\* the number of blockquotes open before token k
QuoteDepth(tokens, k) ==
    Cardinality({j \in 1..(k - 1) : tokens[j].type = "blockquote_open"})
    - Cardinality({j \in 1..(k - 1) : tokens[j].type = "blockquote_close"})

\* the index of blockquote_close for the blockquote_open at i
QuoteCloseAt(tokens, i) ==
    LeastOr({j \in (i + 1)..Len(tokens) :
                tokens[j].type = "blockquote_close" /\ QuoteDepth(tokens, j) = QuoteDepth(tokens, i) + 1},
            Len(tokens) + 1)

\* The handlers of the table tokens do nothing, so the inline token of a
\* cell puts its nodes into the node that holds the table; inline nodes
\* are no content for a blockquote or the doc, and createAndFill gives null
\* for it
HasDirectInline(tokens) ==
    \E k \in 2..Len(tokens) :
        /\ tokens[k].type = "inline" /\ tokens[k].children # <<>>
        /\ tokens[k - 1].type \in {"th_open", "td_open"}
        /\ QuoteDepth(tokens, k) = 0

RECURSIVE BlocksFromTokens(_, _)

\* the blockquote of the tokens between blockquote_open and its close: no
\* node when createAndFill gives null, one empty paragraph in a blockquote
\* without a block
QuoteNode(toks) ==
    IF HasDirectInline(toks) THEN <<>>
    ELSE IF BlocksFromTokens(toks, 1) = <<>> THEN <<Blockquote(<<EmptyParagraph>>)>>
    ELSE <<Blockquote(BlocksFromTokens(toks, 1))>>

QuoteNodeThen(tokens, i, j) ==
    QuoteNode(SubSeq(tokens, i + 1, j - 1)) \o BlocksFromTokens(tokens, j + 1)

\* the list items of the tokens between ordered_list_open and its close:
\* five tokens an item, the paragraph of the item inside
ListItems(toks) ==
    [k \in 1..(Len(toks) \div 5) |->
        ListItem(BlocksFromTokens(SubSeq(toks, 5 * k - 3, 5 * k - 1), 1))]

ListNodeThen(tokens, i, j) ==
    <<OrderedList(OrderedListAttrs(tokens[i]).order, ListItems(SubSeq(tokens, i + 1, j - 1)))>>
    \o BlocksFromTokens(tokens, j + 1)

BlocksFromTokens(tokens, i) ==
    IF i > Len(tokens) THEN <<>>
    ELSE IF tokens[i].type = "paragraph_open"
    THEN <<Paragraph(InlineNodes(tokens[i + 1].children))>> \o BlocksFromTokens(tokens, i + 3)
    ELSE IF tokens[i].type = "ordered_list_open"
    THEN ListNodeThen(tokens, i, ListCloseAt(tokens, i))
    ELSE IF tokens[i].type = "blockquote_open"
    THEN QuoteNodeThen(tokens, i, QuoteCloseAt(tokens, i))
    ELSE IF tokens[i].type = "fence"
    THEN <<CodeBlockFromFence(tokens[i])>> \o BlocksFromTokens(tokens, i + 1)
    ELSE BlocksFromTokens(tokens, i + 1)

FilledDoc(blocks) == Doc(IF blocks = <<>> THEN <<EmptyParagraph>> ELSE blocks)

\* the doc of the tokens: the doc of one empty paragraph when createAndFill
\* gives null for the blocks
DocFromTokens(tokens) ==
    IF HasDirectInline(tokens) THEN Doc(<<EmptyParagraph>>)
    ELSE FilledDoc(BlocksFromTokens(tokens, 1))

BaseParse(content) == DocFromTokens(MdParse(content))

\* ------------------------------------------------ applyImageAttributes
\* transform(node) of applyImageAttributes
RECURSIVE TransformImages(_, _)
TransformImages(node, imgAttrs) ==
    IF node.type = "image"
    THEN IF node.attrs.src \in DOMAIN imgAttrs
         THEN LET attrs == imgAttrs[node.attrs.src] IN
              [node EXCEPT !.attrs.align = IF Truthy(attrs.align) THEN attrs.align ELSE @,
                           !.attrs.width = IF attrs.width # 0 THEN attrs.width ELSE @]
         ELSE node
    ELSE IF IsText(node) THEN node
    ELSE [node EXCEPT !.content = [k \in 1..Len(node.content) |->
                                      TransformImages(node.content[k], imgAttrs)]]

applyImageAttributes(d, imgAttrs) ==
    IF DOMAIN imgAttrs = {} THEN d ELSE TransformImages(d, imgAttrs)

\* ---------------------------------------------------- applyCommentMarks
\* markerPattern anchored at position i: START digits START text END the
\* same digits END, the text as short as possible
NoMarkerMatch(i) == [ok |-> FALSE, idx |-> 0, highlightedText |-> <<>>, next |-> i]

\* the highlighted text is text[h0..e-1], e the index of closing (0: none)
MarkerMatchOf(text, i, indexStr, h0, closing, e) ==
    IF e # 0
    THEN [ok |-> TRUE, idx |-> ParseInt(indexStr),
          highlightedText |-> SubSeq(text, h0, e - 1), next |-> e + Len(closing)]
    ELSE NoMarkerMatch(i)

MarkerMatchClosing(text, i, indexStr, h0, closing) ==
    MarkerMatchOf(text, i, indexStr, h0, closing, IndexFrom(text, closing, h0))

\* the digits are text[d0..d1-1]
MarkerMatchFrom(text, i, d0, d1) ==
    IF d1 > d0 /\ StartsAt(text, COMMENT_START_MARKER, d1)
    THEN MarkerMatchClosing(text, i, SubSeq(text, d0, d1 - 1),
                            d1 + Len(COMMENT_START_MARKER),
                            COMMENT_END_MARKER \o SubSeq(text, d0, d1 - 1) \o COMMENT_END_MARKER)
    ELSE NoMarkerMatch(i)

MarkerMatchAt(text, i) ==
    IF StartsAt(text, COMMENT_START_MARKER, i)
    THEN MarkerMatchFrom(text, i, i + Len(COMMENT_START_MARKER),
                         FirstNotIn(text, i + Len(COMMENT_START_MARKER), Digits))
    ELSE NoMarkerMatch(i)

\* Mark.addToSet for the comment mark, which no mark of the model excludes
\* and which ranks last in the schema: it replaces an equal mark or is
\* added at the end
AddToSet(mark, marks) ==
    IF \E k \in 1..Len(marks) : marks[k] = mark THEN marks ELSE Append(marks, mark)

\* the while loop over markerPattern.exec(text): pos is where the search
\* goes on, lastIndex the end of the last match, result the nodes so far
RECURSIVE MarkerLoop(_, _, _, _, _)
\* commentTexts.get(idx) || ''
CommentTextOf(commentTexts, idx) ==
    IF idx \in DOMAIN commentTexts THEN commentTexts[idx] ELSE <<>>

\* the body of the loop for the match m found at pos
MarkerBody(node, commentTexts, pos, lastIndex, result, m) ==
    MarkerLoop(node, commentTexts, m.next, m.next,
        result
        \o (IF pos > lastIndex
            THEN <<TextNode(SubSeq(node.text, lastIndex, pos - 1), node.marks)>>
            ELSE <<>>)
        \o (IF m.highlightedText # <<>>
            THEN <<TextNode(m.highlightedText,
                            AddToSet(CommentMark(CommentTextOf(commentTexts, m.idx)),
                                     node.marks))>>
            ELSE <<>>))

\* k is the position of the next match, 0 when exec returns null
MarkerExec(node, commentTexts, lastIndex, result, k) ==
    IF k = 0
    THEN IF lastIndex <= Len(node.text)
         THEN Append(result, TextNode(SubSeq(node.text, lastIndex, Len(node.text)), node.marks))
         ELSE result
    ELSE MarkerBody(node, commentTexts, k, lastIndex, result, MarkerMatchAt(node.text, k))

MarkerLoop(node, commentTexts, pos, lastIndex, result) ==
    MarkerExec(node, commentTexts, lastIndex, result,
               LeastOr({k \in pos..Len(node.text) : MarkerMatchAt(node.text, k).ok}, 0))

\* result.length > 0 ? result : [node]
NodesOr(result, node) == IF Len(result) > 0 THEN result ELSE <<node>>

\* transformNode(node): the nodes that replace node
RECURSIVE TransformNode(_, _)
TransformNode(node, commentTexts) ==
    IF IsText(node)
    THEN IF ~Includes(node.text, COMMENT_START_MARKER) THEN <<node>>
         ELSE NodesOr(MarkerLoop(node, commentTexts, 1, 1, <<>>), node)
    ELSE IF node.type \in {"image", "hard_break"} THEN <<node>>
    ELSE <<[node EXCEPT !.content =
                JoinText(Concat([k \in 1..Len(node.content) |->
                                   TransformNode(node.content[k], commentTexts)]))]>>

applyCommentMarks(d, commentTexts) ==
    IF DOMAIN commentTexts = {} THEN d ELSE TransformNode(d, commentTexts)[1]

\* ------------------------------------------------------ the session
\* the table ranges of the token stream: the loop over tokens with its
\* variable tableStart (-1: none)
RECURSIVE TableRangesFrom(_, _, _)
\* the iteration for token i (0-based), a table_open or a table_close
TableRangesAt(toks, i, tableStart) ==
    IF i >= Len(toks) THEN <<>>
    ELSE IF toks[i + 1].type = "table_open" THEN TableRangesFrom(toks, i + 1, i)
    ELSE IF toks[i + 1].type = "table_close" /\ tableStart >= 0
    THEN <<[start |-> tableStart, end |-> i]>> \o TableRangesFrom(toks, i + 1, -1)
    ELSE TableRangesFrom(toks, i + 1, tableStart)

\* the iterations from token i on: those for other tokens change nothing
TableRangesFrom(toks, i, tableStart) ==
    TableRangesAt(toks,
                  LeastOr({k \in i..(Len(toks) - 1) :
                             toks[k + 1].type \in {"table_open", "table_close"}}, Len(toks)),
                  tableStart)

FindTableRanges(toks) == TableRangesFrom(toks, 0, -1)

\* the blocks baseMarkdownParser.parse gives for a slice that is not blank
GapBlocks(text) == IF Trim(text) # <<>> THEN BaseParse(text).content ELSE <<>>

\* tokens.slice(a, b), 0-based, b exclusive
SliceTokens(toks, a, b) == SubSeq(toks, a + 1, b)

CallIdle ==
    /\ parseContent = <<>> /\ commentProcessed = <<>> /\ parseCommentTexts = EmptyMap
    /\ processedContent = <<>> /\ parseImgAttrs = EmptyMap
    /\ parseTokens = <<>> /\ tableRanges = <<>> /\ parseChildren = <<>> /\ lastEnd = 0 /\ ri = 1

EscIdle == epc = "idle" /\ etext = <<>> /\ escaped = <<>> /\ unescaped = <<>>

\* what the session knows of the cells parseTableTokens keeps: the type of
\* the token that opened the current cell, the number of text children it
\* was given, and the same for the cells of currentRow and of rows; shared
\* counts the rows built from the array currentRow still names
Opened0 == [cell |-> "none", texts |-> 0, kids |-> <<>>, row |-> <<>>, rows |-> <<>>, shared |-> 0]
ExtIdle == tacc = TableAcc0 /\ tn = 0 /\ topened = Opened0

SessIdle ==
    /\ pc = "off" /\ todo = <<>> /\ hist = <<>> /\ document = NullNode /\ out = <<>>
    /\ given = <<>>
    /\ CallIdle

\* a call to make: parse its text, parse the text of the last serialize
\* call, or serialize the document of the session
ParseCall(text) == [op |-> "parse", text |-> text]
ParseOut == [op |-> "parseOut", text |-> <<>>]
SerializeCall == [op |-> "serialize", text |-> <<>>]

\* markdownSerializer.serialize(doc)
SerializeDoc ==
    /\ pc = "idle" /\ todo # <<>> /\ Head(todo).op = "serialize"
    /\ out' = Serialize(document)
    /\ hist' = Append(hist, [op |-> "serialize", arg |-> document, res |-> out'])
    /\ todo' = Tail(todo)
    /\ UNCHANGED <<pc, document, given, callVars, escVars, extVars>>

\* markdownParser.parse(content) is entered
StartParse ==
    /\ pc = "idle" /\ todo # <<>> /\ Head(todo).op \in {"parse", "parseOut"}
    /\ parseContent' = IF Head(todo).op = "parse" THEN Head(todo).text ELSE out
    /\ pc' = "comments"
    /\ UNCHANGED <<todo, hist, document, out, given, commentProcessed, parseCommentTexts, processedContent,
                   parseImgAttrs, parseTokens, tableRanges, parseChildren, lastEnd, ri, escVars, extVars>>

\* the image pass is run first, the comment pass on its result
PreprocessComments_AfterImages ==
    /\ pc = "comments"
    /\ \E r \in {preprocessComments(preprocessHtmlImages(parseContent).content)} :
          /\ commentProcessed' = r.content
          /\ parseCommentTexts' = r.commentTexts
    /\ pc' = "images"
    /\ UNCHANGED <<sessVarsButPc, parseContent, processedContent, parseImgAttrs, parseTokens, tableRanges,
                   parseChildren, lastEnd, ri, escVars, extVars>>

PreprocessComments ==
    /\ pc = "comments"
    /\ \E r \in {preprocessComments(parseContent)} :
          /\ commentProcessed' = r.content
          /\ parseCommentTexts' = r.commentTexts
    /\ pc' = "images"
    /\ UNCHANGED <<sessVarsButPc, parseContent, processedContent, parseImgAttrs, parseTokens, tableRanges,
                   parseChildren, lastEnd, ri, escVars, extVars>>

\* imgAttrs is not a new Map: the entries of the earlier call stay in it
PreprocessHtmlImages_SharedMap ==
    /\ pc = "images"
    /\ \E r \in {preprocessHtmlImages(commentProcessed)} :
          /\ processedContent' = r.content
          /\ parseImgAttrs' = r.imgAttrs @@ parseImgAttrs
    /\ pc' = "tokenize"
    /\ UNCHANGED <<sessVarsButPc, parseContent, commentProcessed, parseCommentTexts, parseTokens,
                   tableRanges, parseChildren, lastEnd, ri, escVars, extVars>>

PreprocessHtmlImages ==
    /\ pc = "images"
    /\ \E r \in {preprocessHtmlImages(commentProcessed)} :
          /\ processedContent' = r.content
          /\ parseImgAttrs' = r.imgAttrs
    /\ pc' = "tokenize"
    /\ UNCHANGED <<sessVarsButPc, parseContent, commentProcessed, parseCommentTexts, parseTokens,
                   tableRanges, parseChildren, lastEnd, ri, escVars, extVars>>

\* const tokens = md.parse(processedContent, {})
Tokenize ==
    /\ pc = "tokenize"
    /\ parseTokens' = MdParse(processedContent)
    /\ pc' = "ranges"
    /\ UNCHANGED <<sessVarsButPc, parseContent, commentProcessed, parseCommentTexts, processedContent,
                   parseImgAttrs, tableRanges, parseChildren, lastEnd, ri, escVars, extVars>>

\* the loop that finds the table ranges
FindRanges ==
    /\ pc = "ranges"
    /\ tableRanges' = FindTableRanges(parseTokens)
    /\ parseChildren' = <<>>
    /\ lastEnd' = 0
    /\ ri' = 1
    /\ pc' = IF tableRanges' = <<>> THEN "plain" ELSE "tables"
    /\ UNCHANGED <<sessVarsButPc, parseContent, commentProcessed, parseCommentTexts, processedContent,
                   parseImgAttrs, parseTokens, escVars, extVars>>

\* the call returns d
Return(d) ==
    /\ document' = d
    /\ hist' = Append(hist, [op |-> "parse", arg |-> parseContent, res |-> document'])
    /\ todo' = Tail(todo)
    /\ pc' = "idle"

\* no table: the base parser on the whole text
ParsePlain ==
    /\ pc = "plain"
    /\ Return(applyCommentMarks(applyImageAttributes(BaseParse(processedContent), parseImgAttrs),
                                parseCommentTexts))
    /\ UNCHANGED <<out, given, callVars, escVars, extVars>>

\* the blocks one iteration of the loop over tableRanges appends
NodeIfAny(node) == IF node # NullNode THEN <<node>> ELSE <<>>

\* the table is appended before the blocks of the gap in front of it
RangeBlocks_TableFirst(toks, text, range, last) ==
    NodeIfAny(parseTableTokens(SliceTokens(toks, range.start, range.end + 1)))
    \o (IF range.start > last /\ Len(SliceTokens(toks, last, range.start)) > 0
        THEN GapBlocks(getContentFromTokens(text, toks, last, range.start))
        ELSE <<>>)

\* a rejected candidate takes the gap in front of it with it
RangeBlocks_RejectedDropsGap(toks, text, range, last) ==
    IF parseTableTokens(SliceTokens(toks, range.start, range.end + 1)) = NullNode THEN <<>>
    ELSE (IF range.start > last /\ Len(SliceTokens(toks, last, range.start)) > 0
          THEN GapBlocks(getContentFromTokens(text, toks, last, range.start))
          ELSE <<>>)
         \o <<parseTableTokens(SliceTokens(toks, range.start, range.end + 1))>>

RangeBlocks(toks, text, range, last) ==
    (IF range.start > last /\ Len(SliceTokens(toks, last, range.start)) > 0
     THEN GapBlocks(getContentFromTokens(text, toks, last, range.start))
     ELSE <<>>)
    \o NodeIfAny(parseTableTokens(SliceTokens(toks, range.start, range.end + 1)))

\* one iteration of the loop over tableRanges
AssembleRange ==
    /\ pc = "tables" /\ ri <= Len(tableRanges)
    /\ parseChildren' = parseChildren \o RangeBlocks(parseTokens, processedContent, tableRanges[ri], lastEnd)
    /\ lastEnd' = tableRanges[ri].end + 1
    /\ ri' = ri + 1
    /\ UNCHANGED <<sessVars, parseContent, commentProcessed, parseCommentTexts, processedContent,
                   parseImgAttrs, parseTokens, tableRanges, escVars, extVars>>

\* the blocks of the content after the last table
RestBlocks(toks, text, last) ==
    IF last < Len(toks) THEN GapBlocks(getContentFromTokens(text, toks, last, Len(toks)))
    ELSE <<>>

\* the document is built from the blocks, whether there is one or none
AssembledDoc_NoFallback(blocks, imgAttrs, commentTexts) ==
    applyCommentMarks(applyImageAttributes(Doc(blocks), imgAttrs), commentTexts)

\* the document returned for the assembled blocks
AssembledDoc(blocks, imgAttrs, commentTexts) ==
    IF Len(blocks) = 0 THEN Doc(<<EmptyParagraph>>)
    ELSE applyCommentMarks(applyImageAttributes(Doc(blocks), imgAttrs), commentTexts)

\* after the loop: the content after the last table, then the document
AssembleRest ==
    /\ pc = "tables" /\ ri > Len(tableRanges)
    /\ parseChildren' = parseChildren \o RestBlocks(parseTokens, processedContent, lastEnd)
    /\ Return(AssembledDoc(parseChildren', parseImgAttrs, parseCommentTexts))
    /\ UNCHANGED <<out, given, parseContent, commentProcessed, parseCommentTexts, processedContent, parseImgAttrs,
                   parseTokens, tableRanges, lastEnd, ri, escVars, extVars>>

NextSession ==
    \/ SerializeDoc
    \/ StartParse
    \/ PreprocessComments
    \/ PreprocessHtmlImages
    \/ Tokenize
    \/ FindRanges
    \/ ParsePlain
    \/ AssembleRange
    \/ AssembleRest

\* ------------------------------------------- token streams to assemble
\* The assembler is run on token streams described segment by segment: a
\* paragraph, a GFM table (header row first), and two streams markdown-it is
\* not known to produce but the assembler has code for: a table range in
\* which no row closes, and a table_close that no table_open precedes.
MaxSegs == 3

ParaSeg(text) == [kind |-> "para", text |-> text, rows |-> <<>>]
TableSeg(rows) == [kind |-> "table", text |-> <<>>, rows |-> rows]
EmptyTableSeg == [kind |-> "empty_table", text |-> <<>>, rows |-> <<>>]
StrayCloseSeg == [kind |-> "stray_close", text |-> <<>>, rows |-> <<>>]

SegKinds ==
    { ParaSeg(<<"p">>), ParaSeg(<<"q">>),
      TableSeg(<< <<<<"A">>>> >>),
      TableSeg(<< <<<<"A">>, <<"B">>>>, <<<<"1">>, <<"2">>>> >>),
      EmptyTableSeg, StrayCloseSeg }

\* the GFM source lines of a table given by its rows of cell texts
GfmRow(cells) == <<PIPE, SP>> \o Join(cells, <<SP, PIPE, SP>>) \o <<SP, PIPE>>
GfmTableLines(rows) ==
    <<GfmRow(rows[1]), GfmRow([c \in 1..Len(rows[1]) |-> <<"-", "-", "-">>])>>
    \o [k \in 1..(Len(rows) - 1) |-> GfmRow(rows[k + 1])]

SegLines(seg) ==
    IF seg.kind = "para" THEN <<seg.text>>
    ELSE IF seg.kind = "table" THEN GfmTableLines(seg.rows)
    ELSE <<>>

\* the source lines of a stream: a blank line after each segment
RECURSIVE StreamLinesFrom(_, _)
StreamLinesFrom(segs, i) ==
    IF i > Len(segs) THEN <<>>
    ELSE (IF SegLines(segs[i]) = <<>> THEN <<>> ELSE SegLines(segs[i]) \o << <<>> >>)
         \o StreamLinesFrom(segs, i + 1)

StreamContent(segs) ==
    LET ls == StreamLinesFrom(segs, 1) IN
    IF ls = <<>> THEN <<>> ELSE Join(SubSeq(ls, 1, Len(ls) - 1), <<NL>>)

SegTokens(seg, l0) ==
    IF seg.kind = "empty_table"
    THEN <<Token("table_open", <<l0, l0>>, <<>>, <<>>), Token("table_close", Null, <<>>, <<>>)>>
    ELSE IF seg.kind = "stray_close" THEN <<Token("table_close", Null, <<>>, <<>>)>>
    ELSE ShiftMap(MdParse(Join(SegLines(seg), <<NL>>)), l0)

StreamTokens(segs) ==
    Concat([i \in 1..Len(segs) |->
              SegTokens(segs[i], Len(StreamLinesFrom(SubSeq(segs, 1, i - 1), 1)))])

\* the block a segment stands for
CellOf(type, text) ==
    TableCell(type, <<IF text = <<>> THEN EmptyParagraph ELSE Paragraph(<<TextNode(text, <<>>)>>)>>)
TableOf(rows) ==
    Table([r \in 1..Len(rows) |->
             TableRow([c \in 1..Len(rows[r]) |->
                         CellOf(IF r = 1 THEN "table_header" ELSE "table_cell", rows[r][c])])])
SegBlocks(seg) ==
    IF seg.kind = "para" THEN <<Paragraph(<<TextNode(seg.text, <<>>)>>)>>
    ELSE IF seg.kind = "table" THEN <<TableOf(seg.rows)>>
    ELSE <<>>
StreamBlocks(segs) == Concat([i \in 1..Len(segs) |-> SegBlocks(segs[i])])

\* the parse call stands after md.parse, which returned the stream
InitAssemble ==
    /\ EscIdle /\ ExtIdle
    /\ given \in SeqsUpTo(SegKinds, MaxSegs)
    /\ pc = "ranges"
    /\ todo = <<ParseCall(StreamContent(given))>>
    /\ hist = <<>> /\ document = NullNode /\ out = <<>>
    /\ parseContent = StreamContent(given)
    /\ commentProcessed = StreamContent(given)
    /\ parseCommentTexts = EmptyMap
    /\ processedContent = StreamContent(given)
    /\ parseImgAttrs = EmptyMap
    /\ parseTokens = StreamTokens(given)
    /\ tableRanges = <<>> /\ parseChildren = <<>> /\ lastEnd = 0 /\ ri = 1

NextAssemble == FindRanges \/ ParsePlain \/ AssembleRange \/ AssembleRest

SpecAssemble == InitAssemble /\ [][NextAssemble]_vars

Returned == pc = "idle" /\ todo = <<>> /\ hist # <<>>

\* where markdown-it can produce the stream, the stream is what the
\* tokenizer model gives for the text
RealStream(segs) == \A i \in 1..Len(segs) : segs[i].kind \in {"para", "table"}
StreamIsTokenized == RealStream(given) => parseTokens = MdParse(processedContent)

\* C6: parse never returns a document with zero children; when assembly
\* produces no block, on the no-table path (no paragraph in the text) or on
\* the table path (every table candidate rejected and every gap blank), the
\* result is the document with exactly one empty paragraph.
NoBlockAssembled ==
    \/ tableRanges = <<>> /\ BlocksFromTokens(MdParse(processedContent), 1) = <<>>
    \/ tableRanges # <<>> /\ parseChildren = <<>>

C6_NeverZeroChildren ==
    Returned =>
        /\ Len(document.content) >= 1
        /\ NoBlockAssembled => document = Doc(<<EmptyParagraph>>)

\* the table path returns with a rejected candidate and nothing assembled
C6_Witness ==
    /\ Returned
    /\ tableRanges # <<>>
    /\ parseChildren = <<>>
    /\ document = Doc(<<EmptyParagraph>>)

CandidateSegs(segs) == {i \in 1..Len(segs) : segs[i].kind \in {"table", "empty_table"}}
ThroughCandidate(segs, k) ==
    IF k = 0 THEN 0
    ELSE CHOOSE i \in CandidateSegs(segs) : Cardinality({j \in CandidateSegs(segs) : j <= i}) = k

\* C19: a table candidate for which the extractor returns null adds
\* nothing; the blocks of the gaps before and after it and the other tables
\* are appended all the same; a table_close that no table_open precedes
\* starts no candidate
C19_RejectedCandidatesSkipped ==
    /\ pc # "ranges" => Len(tableRanges) = Cardinality(CandidateSegs(given))
    /\ pc = "tables" =>
          parseChildren = StreamBlocks(SubSeq(given, 1, ThroughCandidate(given, ri - 1)))
    /\ Returned =>
          document.content = (IF StreamBlocks(given) = <<>> THEN <<EmptyParagraph>>
                              ELSE StreamBlocks(given))

\* a stray table_close, then a rejected candidate and a table
C19_Witness ==
    /\ Returned
    /\ given = <<StrayCloseSeg, EmptyTableSeg, TableSeg(<< <<<<"A">>>> >>)>>
    /\ Len(tableRanges) = 2
    /\ document.content = <<TableOf(<< <<<<"A">>>> >>)>>

\* a rejected candidate between two paragraphs
RejectedBetweenParagraphs ==
    /\ Returned
    /\ given = <<ParaSeg(<<"p">>), EmptyTableSeg, ParaSeg(<<"q">>)>>
    /\ document.content = <<Paragraph(<<TextNode(<<"p">>, <<>>)>>), Paragraph(<<TextNode(<<"q">>, <<>>)>>)>>

\* ---------------------------------------------- sessions of whole calls
\* a session that is about to make the calls, on document d
SessionStart(calls, d, g) ==
    /\ EscIdle /\ ExtIdle /\ CallIdle
    /\ pc = "idle" /\ todo = calls /\ hist = <<>>
    /\ document = d /\ out = <<>> /\ given = g

\* ------------------------------------------------------ serialize runs
MaxRows == 2

\* the paragraph of a cell: empty, a word, a word between spaces, a longer
\* text in two leaves
CellParagraphs ==
    {EmptyParagraph,
     Paragraph(<<TextNode(<<"a", "b">>, <<>>)>>),
     Paragraph(<<TextNode(<<SP, SP, "c", "d", SP>>, <<>>)>>),
     Paragraph(<<TextNode(<<"w", "i", "d">>, <<>>), TextNode(<<"e", "r">>, <<CommentMark(<<"n">>)>>)>>)}

\* rows of one or two cells, all header cells or all data cells
TableRowsGiven ==
    {TableRow([k \in 1..Len(ps) |-> TableCell(t, <<ps[k]>>)]) :
        t \in {"table_header", "table_cell"},
        ps \in (CellParagraphs \X CellParagraphs) \cup {<<p>> : p \in {EmptyParagraph, Paragraph(<<TextNode(<<SP, SP, "c", "d", SP>>, <<>>)>>)}}}

TablesGiven == {Table(rows) : rows \in SeqsUpTo(TableRowsGiven, MaxRows) \ {<<>>}}

ImageAttrsGiven ==
    [src : {<<"s">>, <<"u", "/", "v">>},
     alt : {Null, <<>>, <<"a">>, <<"a", "_", "b">>, <<"a", DQ>>},
     title : {Null, <<"t">>, <<"t", DQ, "q">>},
     align : {Null, INLINE, <<"c", "e", "n", "t", "e", "r">>},
     width : {0, 100, 50},
     relativeSrc : {Null, <<"r">>}]

ImagesGiven ==
    {Image(a.src, a.alt, a.title, a.align, a.width, a.relativeSrc) : a \in ImageAttrsGiven}

MaxInline == 4

\* the children of a paragraph: a text, an image, hard breaks, no two
\* texts side by side
InlineKinds == {TextNode(<<"x">>, <<>>), Image(<<"s">>, <<"a">>, Null, INLINE, 100, Null), HardBreak}

InlinesGiven ==
    {c \in SeqsUpTo(InlineKinds, MaxInline) \ {<<>>} :
        \A k \in 1..(Len(c) - 1) : ~(IsText(c[k]) /\ IsText(c[k + 1]))}

MaxListItems == 3

\* list items: one line, two lines around a hard break, two paragraphs
ItemKinds ==
    {ListItem(<<Paragraph(<<TextNode(<<"x">>, <<>>)>>)>>),
     ListItem(<<Paragraph(<<TextNode(<<"x">>, <<>>), HardBreak, TextNode(<<"y">>, <<>>)>>)>>),
     ListItem(<<Paragraph(<<TextNode(<<"x">>, <<>>)>>), Paragraph(<<TextNode(<<"y">>, <<>>)>>)>>)}

\* orders around the steps of the digit count of the last number
ListOrders == {0, 1, 8, 9, 98}

OrderedListsGiven ==
    {OrderedList(n, items) : n \in ListOrders, items \in SeqsUpTo(ItemKinds, MaxListItems) \ {<<>>}}

MaxLinkNodes == 3

\* links: to u: without and with a title, to x (no scheme), to u:~ (a
\* character that state.esc puts behind a backslash)
URL == <<"u", ":">>
URL_TILDE == <<"u", ":", "~">>
LinkU == LinkMark(URL, Null)
LinkTitled == LinkMark(URL, <<"t", DQ>>)
LinkNoScheme == LinkMark(<<"x">>, Null)
LinkTilde == LinkMark(URL_TILDE, Null)

\* text leaves with and without a link, one with a comment inside the link
LinkNodeKinds ==
    {TextNode(URL, <<LinkU>>), TextNode(<<"x">>, <<LinkU>>), TextNode(URL, <<LinkTitled>>),
     TextNode(<<"x">>, <<LinkNoScheme>>), TextNode(URL_TILDE, <<LinkTilde>>),
     TextNode(URL, <<LinkU, CommentMark(<<"c">>)>>),
     TextNode(<<"x">>, <<>>), TextNode(URL, <<CommentMark(<<"c">>)>>)}

\* the children of a paragraph: neighbours differ in their marks (text
\* leaves of the same marks are one leaf)
LinksGiven ==
    {c \in SeqsUpTo(LinkNodeKinds, MaxLinkNodes) \ {<<>>} :
        \A k \in 1..(Len(c) - 1) : c[k].marks # c[k + 1].marks}

MaxRunNodes == 3

\* leaves of one link, with and without a code mark before it, of a link
\* with a title, and a plain text
RunNodeKinds ==
    {TextNode(URL, <<LinkU>>), TextNode(URL, <<CodeMark, LinkU>>), TextNode(<<"x">>, <<LinkU>>),
     TextNode(URL, <<LinkTitled>>), TextNode(<<"x">>, <<>>)}

LinkRunsGiven ==
    {c \in SeqsUpTo(RunNodeKinds, MaxRunNodes) \ {<<>>} :
        \A k \in 1..(Len(c) - 1) : c[k].marks # c[k + 1].marks}

MaxCodeNodes == 3

\* code leaves without a backtick, of one backtick, with a run of two, with
\* two runs of one; code leaves inside a link; a plain text
CodeNodeKinds ==
    {TextNode(<<"a">>, <<CodeMark>>), TextNode(<<BT>>, <<CodeMark>>),
     TextNode(<<"a", BT, BT, "b">>, <<CodeMark>>), TextNode(<<BT, "a", BT>>, <<CodeMark>>),
     TextNode(<<BT>>, <<CodeMark, LinkU>>), TextNode(<<"b">>, <<CodeMark, LinkTitled>>),
     TextNode(<<"x">>, <<>>)}

CodesGiven ==
    {c \in SeqsUpTo(CodeNodeKinds, MaxCodeNodes) \ {<<>>} :
        \A k \in 1..(Len(c) - 1) : c[k].marks # c[k + 1].marks}

SerializeDocs ==
    {Doc(<<Paragraph(c)>>) : c \in LinksGiven} \cup
    {Doc(<<Paragraph(c)>>) : c \in LinkRunsGiven} \cup
    {Doc(<<Paragraph(c)>>) : c \in CodesGiven} \cup
    {Doc(<<t>>) : t \in TablesGiven} \cup {Doc(<<Paragraph(<<i>>)>>) : i \in ImagesGiven}
    \cup {Doc(<<Paragraph(c)>>) : c \in InlinesGiven}
    \cup {Doc(<<l>>) : l \in OrderedListsGiven}

InitSerialize == \E d \in SerializeDocs : SessionStart(<<SerializeCall>>, d, d)

NextSerialize == SerializeDoc

SpecSerialize == InitSerialize /\ [][NextSerialize]_vars

\* the lines of the text written, without their final line feed
OutLines == LET parts == Split(out, NL) IN SubSeq(parts, 1, Len(parts) - 1)

IsTableDoc(d) == d.type = "doc" /\ Len(d.content) = 1 /\ d.content[1].type = "table"

\* the longest text among the cells of a column: the text of the cell's
\* descendants, as it stands or trimmed
LongestCellText(table, col, trimmed) ==
    MaxOf({Len(IF trimmed THEN Trim(TextContent(table.content[r].content[col]))
               ELSE TextContent(table.content[r].content[col])) :
             r \in {q \in 1..Len(table.content) : col <= Len(table.content[q].content)}})

ColumnsOf(table) == MaxOf({Len(table.content[r].content) : r \in 1..Len(table.content)})

\* the line is | part | part | ... with 2 + max(3, longest) characters in
\* each part
LineHasWidths(parts, table, trimmed) ==
    /\ Len(parts) = ColumnsOf(table) + 2
    /\ parts[1] = <<>> /\ parts[Len(parts)] = <<>>
    /\ \A col \in 1..ColumnsOf(table) :
         Len(parts[col + 1]) = 2 + Max(3, LongestCellText(table, col, trimmed))

TableWidthsHold(table, lines, trimmed) ==
    /\ Len(lines) >= Len(table.content)
    /\ \A i, j \in 1..Len(lines) : Len(lines[i]) = Len(lines[j])
    /\ \A i \in 1..Len(lines) : LineHasWidths(Split(lines[i], PIPE), table, trimmed)

IsImageDoc(d) ==
    /\ d.type = "doc" /\ Len(d.content) = 1 /\ d.content[1].type = "paragraph"
    /\ Len(d.content[1].content) = 1 /\ d.content[1].content[1].type = "image"

\* ![alt](src "title"), the alt escaped for markdown, the quotes of the
\* title behind a backslash, src being relativeSrc where one is set
MarkdownImageForm(a) ==
    <<"!", "[">> \o (IF a.alt = Null THEN <<>> ELSE Esc(a.alt)) \o <<"]", "(">>
    \o (IF a.relativeSrc = Null \/ a.relativeSrc = <<>> THEN a.src ELSE a.relativeSrc)
    \o (IF a.title = Null \/ a.title = <<>> THEN <<>>
        ELSE <<SP, DQ>> \o ReplaceAll(a.title, DQ, <<BS, DQ>>) \o <<DQ>>)
    \o <<")">>

\* C5: an image with align 'inline' and width 100 is written in the
\* markdown form ![alt](src "title") and never as an <img> tag, whatever
\* its src, alt and title
C5_ImageDefaultElision ==
    Returned /\ IsImageDoc(given)
      /\ given.content[1].content[1].attrs.align = INLINE
      /\ given.content[1].content[1].attrs.width = 100
    => /\ ~Includes(out, IMG_OPEN)
       /\ out = MarkdownImageForm(given.content[1].content[1].attrs)

C5_Witness ==
    /\ Returned /\ IsImageDoc(given)
    /\ given.content[1].content[1].attrs =
         [src |-> <<"s">>, alt |-> <<"a">>, title |-> <<"t">>, align |-> INLINE,
          width |-> 100, relativeSrc |-> Null]
    /\ out = <<"!", "[", "a", "]", "(", "s", SP, DQ, "t", DQ, ")">>

IsInlineDoc(d) ==
    /\ d.type = "doc" /\ Len(d.content) = 1 /\ d.content[1].type = "paragraph"
    /\ \E k \in 1..Len(d.content[1].content) : d.content[1].content[k].type = "hard_break"

\* the hard breaks of the children c that are followed by a child of
\* another type, directly or anywhere after them
BreaksBeforeOther(c, directly) ==
    {i \in 1..Len(c) :
        /\ c[i].type = "hard_break"
        /\ IF directly THEN i + 1 <= Len(c) /\ c[i + 1].type # "hard_break"
           ELSE \E j \in (i + 1)..Len(c) : c[j].type # "hard_break"}

\* what the children are written as, the breaks of B as two spaces and a
\* line feed, the other breaks as nothing
WrittenInline(c, B) ==
    Concat([i \in 1..Len(c) |->
              CASE c[i].type = "text" -> c[i].text
                [] c[i].type = "image" -> MarkdownImageForm(c[i].attrs)
                [] OTHER -> IF i \in B THEN <<SP, SP, NL>> ELSE <<>>])

\* C16 (as amended): a hard_break writes two spaces and a line feed exactly
\* when some sibling after it is not a hard_break; the breaks at the end of
\* the parent write nothing, and every break of a run that other content
\* follows is written
C16_HardBreakBeforeContent ==
    Returned /\ IsInlineDoc(given) =>
        out = WrittenInline(given.content[1].content, BreaksBeforeOther(given.content[1].content, FALSE))

\* C16 as stated: a hard_break writes only when its next sibling exists
\* and is not a hard_break, so of a run of breaks only the last is written
C16_HardBreakBeforeContent_AsStated ==
    Returned /\ IsInlineDoc(given) =>
        out = WrittenInline(given.content[1].content, BreaksBeforeOther(given.content[1].content, TRUE))

C16_Witness ==
    /\ Returned
    /\ given = Doc(<<Paragraph(<<TextNode(<<"x">>, <<>>), HardBreak, HardBreak, TextNode(<<"x">>, <<>>)>>)>>)
    /\ out = <<"x", SP, SP, NL, SP, SP, NL, "x">>

\* a separator row: pipes, spaces and dashes, with a dash
IsSeparatorLine(line) ==
    /\ \A k \in 1..Len(line) : line[k] \in {PIPE, SP, "-"}
    /\ \E k \in 1..Len(line) : line[k] = "-"

SeparatorLines(lines) == {i \in 1..Len(lines) : IsSeparatorLine(lines[i])}

SomeHeaderCell(table) ==
    \E r \in 1..Len(table.content) : \E c \in 1..Len(table.content[r].content) :
        table.content[r].content[c].type = "table_header"

IsListDoc(d) == d.type = "doc" /\ Len(d.content) = 1 /\ d.content[1].type = "ordered_list"

\* the lines of an item as its paragraphs are written on their own, an
\* empty line between two paragraphs
ItemLines(item) ==
    Join([k \in 1..Len(item.content) |-> Split(Serialize(Doc(<<item.content[k]>>)), NL)],
         << <<>> >>)

\* the number s + i in a field of w characters, followed by a dot and a
\* space: the spaces before the number, or after it
MarkerText(s, i, w, spacesFirst) ==
    IF spacesFirst
    THEN Repeat(SP, w - Len(IntToStr(s + i))) \o IntToStr(s + i) \o <<".", SP>>
    ELSE IntToStr(s + i) \o Repeat(SP, w - Len(IntToStr(s + i))) \o <<".", SP>>

\* the lines of item i (from 0) behind its marker, the lines after the
\* first behind w + 2 spaces, an empty line staying empty
MarkedItemLines(item, s, i, w, spacesFirst) ==
    [k \in 1..Len(ItemLines(item)) |->
        IF k = 1 THEN MarkerText(s, i, w, spacesFirst) \o ItemLines(item)[1]
        ELSE IF ItemLines(item)[k] = <<>> THEN <<>>
        ELSE Repeat(SP, w + 2) \o ItemLines(item)[k]]

\* the list written with start s, an empty line between the items
WrittenList(list, s, spacesFirst) ==
    Join([i \in 1..Len(list.content) |->
            Join(MarkedItemLines(list.content[i], s, i - 1,
                                 Len(IntToStr(s + Len(list.content) - 1)), spacesFirst),
                 <<NL>>)],
         <<NL, NL>>)

\* start of the renderer: order, and 1 for order 0
StartOf(list) == IF list.attrs.order = 0 THEN 1 ELSE list.attrs.order

IsLinkDoc(d) ==
    /\ d.type = "doc" /\ Len(d.content) = 1 /\ d.content[1].type = "paragraph"
    /\ d.content[1].content \in LinksGiven

\* the link among the marks, where there is one
HasLink(node) == \E k \in 1..Len(node.marks) : node.marks[k].type = "link"
LinkOf(node) == node.marks[CHOOSE k \in 1..Len(node.marks) : node.marks[k].type = "link"]
HasComment(node) == \E k \in 1..Len(node.marks) : node.marks[k].type = "comment"

\* the conditions of the autolink form on the leaf itself
AutolinkLeaf(node) ==
    /\ ~Truthy(LinkOf(node).title)
    /\ HasScheme(LinkOf(node).href)
    /\ node.text = LinkOf(node).href
    /\ node.marks[Len(node.marks)] = LinkOf(node)

LinkBefore(c, i) == i > 1 /\ IsInSet(LinkOf(c[i]), c[i - 1].marks)
LinkAfter(c, i) == i < Len(c) /\ IsInSet(LinkOf(c[i]), c[i + 1].marks)

\* [text](href "title"): what follows the text
LinkTail(link) ==
    <<"]", "(">> \o link.href
    \o (IF link.title = Null THEN <<>> ELSE <<SP, DQ>> \o EscQuotes(link.title) \o <<DQ>>)
    \o <<")">>

\* the leaf i of the children c as the autolink rule has it written; the
\* text of the autolink form is the href, as it stands or as state.esc
\* leaves it
WrittenLeaf(c, i, hrefAsItStands) ==
    (IF HasLink(c[i]) /\ ~LinkBefore(c, i)
     THEN (IF AutolinkLeaf(c[i]) /\ ~LinkAfter(c, i) THEN <<"<">> ELSE <<"[">>)
     ELSE <<>>)
    \o (IF HasComment(c[i]) THEN COMMENT_OPEN \o <<"c">> \o COMMENT_OPEN_END ELSE <<>>)
    \o (IF HasLink(c[i]) /\ AutolinkLeaf(c[i]) /\ ~LinkBefore(c, i) /\ ~LinkAfter(c, i)
           /\ hrefAsItStands
        THEN LinkOf(c[i]).href ELSE Esc(c[i].text))
    \o (IF HasComment(c[i]) THEN COMMENT_CLOSE ELSE <<>>)
    \o (IF HasLink(c[i]) /\ ~LinkAfter(c, i)
        THEN (IF AutolinkLeaf(c[i]) /\ ~LinkBefore(c, i) THEN <<">">> ELSE LinkTail(LinkOf(c[i])))
        ELSE <<>>)

WrittenLinks(c, hrefAsItStands) == Concat([i \in 1..Len(c) |-> WrittenLeaf(c, i, hrefAsItStands)])

\* C22: a link-marked text is written <href> exactly when the link has no
\* title, the href begins with a scheme, the text of the leaf is the href,
\* the link is the last mark of the leaf, and on the side looked at the
\* leaf is at the edge of the parent or its neighbour does not carry the
\* link; otherwise it is written [text](href "title"), the title part left
\* out when there is no title
C22_AutolinkRule ==
    Returned /\ IsLinkDoc(given) => out = WrittenLinks(given.content[1].content, TRUE)

\* the same with the text of the autolink form as state.esc leaves it: the
\* choice between the two forms is the one of the rule
AutolinkRuleOfTheDelimiters ==
    Returned /\ IsLinkDoc(given) => out = WrittenLinks(given.content[1].content, FALSE)

\* the link to u:~ around the text u:~ is written with a backslash
AutolinkTextIsEscaped ==
    /\ Returned
    /\ given = Doc(<<Paragraph(<<TextNode(URL_TILDE, <<LinkTilde>>)>>)>>)
    /\ out = <<"<", "u", ":", BS, "~", ">">>

\* x, then the link to u: around u:
AutolinkAfterText ==
    /\ Returned
    /\ given = Doc(<<Paragraph(<<TextNode(<<"x">>, <<>>), TextNode(URL, <<LinkU>>)>>)>>)
    /\ out = <<"x", "<", "u", ":", ">">>

IsCodeDoc(d) ==
    /\ d.type = "doc" /\ Len(d.content) = 1 /\ d.content[1].type = "paragraph"
    /\ d.content[1].content \in CodesGiven

HasCode(node) == \E k \in 1..Len(node.marks) : node.marks[k].type = "code"

\* the code mark stays open from leaf i to leaf i + 1: both carry it under
\* a further mark
CodeGoesOn(c, i) ==
    /\ i >= 1 /\ i < Len(c)
    /\ HasCode(c[i]) /\ Len(c[i].marks) > 1
    /\ HasCode(c[i + 1]) /\ Len(c[i + 1].marks) > 1

\* every code leaf has its own delimiters
OneLeafSpans(c) == \A i \in 1..Len(c) : ~CodeGoesOn(c, i)

\* the runs of backticks of the text, as pairs of first and last index
TickRuns(text) ==
    {r \in (1..Len(text)) \X (1..Len(text)) :
        /\ r[1] <= r[2]
        /\ \A k \in r[1]..r[2] : text[k] = BT
        /\ (r[1] = 1 \/ text[r[1] - 1] # BT)
        /\ (r[2] = Len(text) \/ text[r[2] + 1] # BT)}

LongestRunOf(text) == MaxOf({r[2] - r[1] + 1 : r \in TickRuns(text)})

\* n + 1 backticks and a space on the side of the text for n > 0, one
\* backtick for n = 0, n the longest run of backticks of the leaf
Delimiter(n, opening) ==
    IF n = 0 THEN <<BT>>
    ELSE IF opening THEN Repeat(BT, n + 1) \o <<SP>>
    ELSE <<SP>> \o Repeat(BT, n + 1)

\* what the delimiters of a leaf are around: its text, or the link with
\* its text
InsideCode(node) ==
    IF HasLink(node) THEN <<"[">> \o Esc(node.text) \o LinkTail(LinkOf(node)) ELSE node.text

WrittenCodeLeaf(node) ==
    IF HasCode(node)
    THEN Delimiter(LongestRunOf(node.text), TRUE) \o InsideCode(node)
         \o Delimiter(LongestRunOf(node.text), FALSE)
    ELSE Esc(node.text)

CodeOverTwoLeaves ==
    /\ Returned
    /\ given = Doc(<<Paragraph(<<TextNode(<<BT>>, <<CodeMark, LinkU>>),
                                 TextNode(<<"b">>, <<CodeMark, LinkTitled>>)>>)>>)
    /\ SubSeq(out, 1, 3) = <<BT, BT, SP>>
    /\ out[Len(out)] = BT /\ out[Len(out) - 1] # BT

\* an image as the schema, the parser and the editor make it: align is a
\* name and width a number from 1 on
IsSetImage(a) == a.align # Null /\ a.align # <<>> /\ a.width >= 1

\* name="value" behind a space, a double quote of the value as &quot;
WrittenAttr(name, value) ==
    <<SP>> \o name \o <<"=", DQ>> \o ReplaceAll(value, DQ, QUOT) \o <<DQ>>

\* relativeSrc where there is one, src otherwise
WrittenSrc(a) == IF a.relativeSrc = Null \/ a.relativeSrc = <<>> THEN a.src ELSE a.relativeSrc

\* <img src alt? title? align? width? />
ImageTagForm(a) ==
    IMG_OPEN
    \o WrittenAttr(<<"s", "r", "c">>, WrittenSrc(a))
    \o (IF a.alt = Null \/ a.alt = <<>> THEN <<>> ELSE WrittenAttr(<<"a", "l", "t">>, a.alt))
    \o (IF a.title = Null \/ a.title = <<>> THEN <<>>
        ELSE WrittenAttr(<<"t", "i", "t", "l", "e">>, a.title))
    \o (IF a.align = INLINE THEN <<>> ELSE WrittenAttr(<<"a", "l", "i", "g", "n">>, a.align))
    \o (IF a.width = 100 THEN <<>>
        ELSE WrittenAttr(<<"w", "i", "d", "t", "h">>, IntToStr(a.width) \o <<"%">>))
    \o <<SP, "/", ">">>

\* C24: an image with align other than 'inline' or width other than 100
\* is written as one <img ... /> tag of src, alt if set, title if set,
\* align if not 'inline' and width with a percent sign if not 100; in both
\* forms the src written is relativeSrc where there is one and src
\* otherwise
C24_ImageTagEmission ==
    Returned /\ IsImageDoc(given) /\ IsSetImage(given.content[1].content[1].attrs) =>
        out = (IF given.content[1].content[1].attrs.align # INLINE
                  \/ given.content[1].content[1].attrs.width # 100
               THEN ImageTagForm(given.content[1].content[1].attrs)
               ELSE MarkdownImageForm(given.content[1].content[1].attrs))

\* a centred image of width 50 with a relativeSrc, an alt and a title
C24_Witness ==
    /\ Returned /\ IsImageDoc(given)
    /\ given.content[1].content[1].attrs =
         [src |-> <<"s">>, alt |-> <<"a">>, title |-> <<"t">>, align |-> CENTER,
          width |-> 50, relativeSrc |-> <<"r">>]
    /\ out = IMG_OPEN \o <<SP, "s", "r", "c", "=", DQ, "r", DQ>>
             \o <<SP, "a", "l", "t", "=", DQ, "a", DQ>>
             \o <<SP, "t", "i", "t", "l", "e", "=", DQ, "t", DQ>>
             \o <<SP, "a", "l", "i", "g", "n", "=", DQ>> \o CENTER \o <<DQ>>
             \o <<SP, "w", "i", "d", "t", "h", "=", DQ, "5", "0", "%", DQ>>
             \o <<SP, "/", ">">>

\* ------------------------------------------------- runs of one link
IsRunDoc(d) ==
    /\ d.type = "doc" /\ Len(d.content) = 1 /\ d.content[1].type = "paragraph"
    /\ d.content[1].content \in LinkRunsGiven \cup LinksGiven

\* the maximal runs of children that carry the link, as pairs of the first
\* and the last index (from 0)
MaximalRuns(parent, link) ==
    {r \in (0..(Len(parent.content) - 1)) \X (0..(Len(parent.content) - 1)) :
        /\ r[1] <= r[2]
        /\ \A k \in r[1]..r[2] : IsInSet(link, Child(parent, k).marks)
        /\ (r[1] = 0 \/ ~IsInSet(link, Child(parent, r[1] - 1).marks))
        /\ (r[2] = Len(parent.content) - 1 \/ ~IsInSet(link, Child(parent, r[2] + 1).marks))}

LinksOf(parent) ==
    UNION {{parent.content[k].marks[j] :
               j \in {i \in 1..Len(parent.content[k].marks) : parent.content[k].marks[i].type = "link"}} :
           k \in 1..Len(parent.content)}

\* the decision at the opening of a run is the decision at its closing
DecisionsAgree(parent) ==
    \A link \in LinksOf(parent) : \A r \in MaximalRuns(parent, link) :
        isPlainURL(link, parent, r[1], 1) = isPlainURL(link, parent, r[2] + 1, -1)

\* the delimiters of the links in the text written, in order
LinkDelimiters(text) == SelectSeq(text, LAMBDA ch : ch \in {"<", ">", "[", "]"})

\* each opening is followed by the closing of its form
DelimitersPair(d) ==
    /\ Len(d) % 2 = 0
    /\ \A k \in 1..Len(d) :
          k % 2 = 1 => \/ d[k] = "<" /\ d[k + 1] = ">"
                       \/ d[k] = "[" /\ d[k + 1] = "]"

NoComment(parent) == \A k \in 1..Len(parent.content) : ~HasComment(parent.content[k])

\* C30: for every maximal run of children that carry one link mark, from
\* index a to index b, isPlainURL(link, parent, a, 1) at the opening equals
\* isPlainURL(link, parent, b + 1, -1) at the closing, so that the text
\* written has either < ... > or [ ... ]( ... ) and never the opening of one
\* form with the closing of the other.
C30_LinkDelimitersAgree ==
    Returned /\ IsRunDoc(given) /\ NoComment(given.content[1]) =>
        /\ DecisionsAgree(given.content[1])
        /\ DelimitersPair(LinkDelimiters(out))

\* the two decisions of a maximal run agree
DecisionsOfARunAgree ==
    Returned /\ IsRunDoc(given) => DecisionsAgree(given.content[1])

\* where no leaf has a mark before its link the delimiters pair up
DelimitersPairWithoutOuterMark ==
    Returned /\ IsRunDoc(given) /\ NoComment(given.content[1])
      /\ (\A k \in 1..Len(given.content[1].content) : ~HasCode(given.content[1].content[k]))
    => DelimitersPair(LinkDelimiters(out))

\* a run of two leaves of which the first has the code mark before the
\* link: the link is closed and opened again between the two, each time
\* with one decision for a run of one leaf and the other for a run of two
LinkReopenedInsideARun ==
    /\ Returned
    /\ given = Doc(<<Paragraph(<<TextNode(URL, <<CodeMark, LinkU>>), TextNode(URL, <<LinkU>>)>>)>>)
    /\ LinkDelimiters(out) = <<"[", ">", "<", "]">>

\* ------------------------------------------ serialize, then parse again
MaxBlocks == 2


PlainCell(type, text) == TableCell(type, <<Paragraph(<<TextNode(text, <<>>)>>)>>)

\* the blocks a tree is made of: paragraphs of text, of an image with the
\* default or with its own align and width, of commented text, an empty
\* paragraph, and tables of header and data rows in every arrangement
BlockKinds ==
    {Paragraph(<<TextNode(<<"x">>, <<>>)>>),
     Paragraph(<<Image(<<"s">>, <<"a">>, Null, INLINE, 100, Null)>>),
     Paragraph(<<Image(<<"s">>, <<"a">>, Null, CENTER, 50, Null)>>),
     Paragraph(<<TextNode(<<"h">>, <<CommentMark(<<"n", DQ>>)>>)>>),
     EmptyParagraph,
     Table(<<TableRow(<<PlainCell("table_header", <<"A">>), PlainCell("table_header", <<"B">>)>>),
             TableRow(<<PlainCell("table_cell", <<"1">>), TableCell("table_cell", <<EmptyParagraph>>)>>)>>),
     Table(<<TableRow(<<PlainCell("table_header", <<"A">>)>>)>>),
     Table(<<TableRow(<<PlainCell("table_cell", <<"a">>)>>)>>),
     Table(<<TableRow(<<PlainCell("table_cell", <<"a">>)>>),
             TableRow(<<PlainCell("table_cell", <<"b">>)>>)>>)}

Trees == {Doc(blocks) : blocks \in SeqsUpTo(BlockKinds, MaxBlocks) \ {<<>>}}

InitTree == \E d \in Trees : SessionStart(<<SerializeCall, ParseOut>>, d, d)

SpecTree == InitTree /\ [][NextSession]_vars

\* the tree without its empty paragraphs; a tree of nothing else is the
\* tree of one empty paragraph
NoEmptyParagraphs(d) ==
    LET kept == SelectSeq(d.content, LAMBDA b : b # EmptyParagraph) IN
    Doc(IF kept = <<>> THEN <<EmptyParagraph>> ELSE kept)

\* C1: parse(serialize(d)) is the tree d again, empty paragraphs apart
C1_Idempotence ==
    Returned /\ Len(hist) = 2 /\ hist[1].op = "serialize" /\ hist[1].arg = given
    => NoEmptyParagraphs(document) = NoEmptyParagraphs(given)

\* the trees whose tables have their header cells in the first row, and in
\* that row only, and that hold one image at most, do come back
HeaderFirst(d) ==
    \A i \in 1..Len(d.content) :
        d.content[i].type = "table" =>
            \A r \in 1..Len(d.content[i].content) :
                \A c \in 1..Len(d.content[i].content[r].content) :
                    (d.content[i].content[r].content[c].type = "table_header") = (r = 1)

ImageBlocks(d) ==
    SelectSeq(d.content, LAMBDA b : b.type = "paragraph" /\ b.content # <<>>
                                     /\ b.content[1].type = "image")

TreesWithHeaderFirstComeBack ==
    Returned /\ Len(hist) = 2 /\ HeaderFirst(given) /\ Len(ImageBlocks(given)) < 2
    => NoEmptyParagraphs(document) = NoEmptyParagraphs(given)

\* ------------------------------- parse, serialize, then parse again
MaxNoteLen == 2
MaxDataRows == 2

\* <!-- COMMENT: "escape(c)" -->h<!-- /COMMENT -->
CommentWrapper(c, h) ==
    COMMENT_OPEN \o escapeCommentText(c) \o COMMENT_OPEN_END \o h \o COMMENT_CLOSE

NoteChars == {BS, DQ, NL, CR, TAB, "n", "t", "a"}
HighlightTexts == {<<"h">>, <<"h", "i", SP, "x">>}

WrappersGiven ==
    {[kind |-> "wrapper", c |-> c, h |-> h, rows |-> <<>>] :
        c \in SeqsUpTo(NoteChars, MaxNoteLen), h \in HighlightTexts}

\* a header row of one or two cells, then data rows of one or two cells
HeaderRowsGiven == {<<<<"A">>>>, <<<<"A">>, <<"B", "b">>>>}
DataRowsGiven ==
    {<<a>> : a \in {<<"1">>, <<"w", "i", "d", "e">>}}
    \cup {<<a, b>> : a \in {<<"1">>, <<"w", "i", "d", "e">>}, b \in {<<"2">>, <<"w", "i", "d", "e">>}}

DataRowsFitting(hd) ==
    {r \in SeqsUpTo(DataRowsGiven, MaxDataRows) \ {<<>>} : \A k \in 1..Len(r) : Len(r[k]) <= Len(hd)}

GfmTablesGiven ==
    UNION {{[kind |-> "gfm", c |-> <<>>, h |-> <<>>, rows |-> <<hd>> \o rest] :
                rest \in DataRowsFitting(hd)} : hd \in HeaderRowsGiven}

TextsGiven == WrappersGiven \cup GfmTablesGiven

\* the markdown text of a given input
TextOf(g) ==
    IF g.kind = "wrapper" THEN CommentWrapper(g.c, g.h)
    ELSE Join(GfmTableLines(g.rows), <<NL>>) \o <<NL>>

InitText ==
    \E g \in TextsGiven :
        SessionStart(<<ParseCall(TextOf(g)), SerializeCall, ParseOut>>, NullNode, g)

SpecText == InitText /\ [][NextSession]_vars

\* C3: parsing the wrapper of comment text c around plain text h gives
\* exactly one text leaf, of text h, carrying a comment mark whose text is
\* c, and serializing that tree gives the wrapper back, character for
\* character
C3_CommentRoundTrip ==
    given.kind = "wrapper" =>
        /\ Len(hist) >= 1 =>
             /\ hist[1].arg = CommentWrapper(given.c, given.h)
             /\ hist[1].res = Doc(<<Paragraph(<<TextNode(given.h, <<CommentMark(given.c)>>)>>)>>)
        /\ Len(hist) >= 2 =>
             /\ hist[2].arg = hist[1].res
             /\ hist[2].res = hist[1].arg

C3_Witness ==
    /\ given.kind = "wrapper" /\ given.c = <<BS, DQ>> /\ given.h = <<"h", "i", SP, "x">>
    /\ Len(hist) >= 2
    /\ hist[1].res.content[1].content[1].marks = <<CommentMark(<<BS, DQ>>)>>
    /\ hist[2].res = COMMENT_OPEN \o <<BS, BS, BS, DQ>> \o COMMENT_OPEN_END
                     \o <<"h", "i", SP, "x">> \o COMMENT_CLOSE

\* the text the source gives for cell c of row r: rows shorter than the
\* header row are filled with empty cells
GivenCellText(rows, r, c) == IF c <= Len(rows[r]) THEN rows[r][c] ELSE <<>>

IsRoundTripTable(table, rows) ==
    /\ table.type = "table"
    /\ Len(table.content) = Len(rows)
    /\ \A r \in 1..Len(table.content) :
        /\ Len(table.content[r].content) = Len(rows[1])
        /\ \A c \in 1..Len(table.content[r].content) :
            /\ (table.content[r].content[c].type = "table_header") = (r = 1)
            /\ table.content[r].content[c].type \in {"table_header", "table_cell"}
            /\ TextContent(table.content[r].content[c]) = GivenCellText(rows, r, c)

\* C8: a GFM pipe table of a header row, a separator row and k >= 1 data
\* rows of plain-text cells, parsed, serialized and parsed again, is a
\* table of k+1 rows with the same number of cells in every row, header
\* cells in row 0 only and the same text in every cell
C8_TableRoundTrip ==
    given.kind = "gfm" /\ Returned /\ Len(hist) = 3 =>
        /\ Len(document.content) = 1
        /\ IsRoundTripTable(document.content[1], given.rows)
        /\ document = hist[1].res

C8_Witness ==
    /\ given.kind = "gfm" /\ Returned /\ Len(hist) = 3
    /\ given.rows = <<<<<<"A">>, <<"B", "b">>>>, <<<<"w", "i", "d", "e">>, <<"2">>>>, <<<<"1">>>>>>
    /\ Len(document.content[1].content) = 3
    /\ Len(document.content[1].content[3].content) = 2
    /\ hist[2].res # hist[1].arg

\* ----------------------------------------------- calls one after another
MaxCalls == 3

SRC_S == <<"s", "r", "c", "=", DQ, "s", DQ>>

\* texts whose parse uses the side tables: a markdown image of src s, an
\* <img> tag of the same src with an align, a comment wrapper, a text
\* that holds the sentinels of comment 0 without any wrapper, and a table
CallTexts ==
    {<<"!", "[", "a", "]", "(", "s", ")">>,
     IMG_OPEN \o <<SP>> \o SRC_S \o <<SP, "a", "l", "i", "g", "n", "=", DQ>> \o CENTER \o <<DQ, SP, "/", ">">>,
     CommentWrapper(<<"n">>, <<"h">>),
     COMMENT_START_MARKER \o <<"0">> \o COMMENT_START_MARKER \o <<"h">>
        \o COMMENT_END_MARKER \o <<"0">> \o COMMENT_END_MARKER,
     Join(GfmTableLines(<<<<<<"A">>>>>>), <<NL>>) \o <<NL>>}

CallKinds == {ParseCall(t) : t \in CallTexts} \cup {SerializeCall}

InitCalls ==
    \E calls \in SeqsUpTo(CallKinds, MaxCalls) :
        SessionStart(calls, Doc(<<EmptyParagraph>>), calls)

SpecCalls == InitCalls /\ [][NextSession]_vars

\* the number of places of s where p starts
Occurrences(s, p) == Cardinality({k \in 1..Len(s) : StartsAt(s, p, k)})

\* C10: parse keeps nothing from one call to the next: the same text gives
\* the same tree whatever calls ran before it, the comment ids of a call
\* are 0..n-1 for the n wrappers of its own text, and the image side table
\* holds only a src of an <img> tag of its own text
C10_PerCallIsolation ==
    /\ \A i, j \in 1..Len(hist) :
         hist[i].op = "parse" /\ hist[j].op = "parse" /\ hist[i].arg = hist[j].arg
         => hist[i].res = hist[j].res
    /\ pc \in {"images", "tokenize", "ranges", "plain", "tables"} =>
         DOMAIN parseCommentTexts = 0..(Occurrences(parseContent, COMMENT_OPEN) - 1)
    /\ pc \in {"tokenize", "ranges", "plain", "tables"} =>
         /\ DOMAIN parseImgAttrs \subseteq {<<"s">>}
         /\ parseImgAttrs # EmptyMap => Includes(parseContent, IMG_OPEN)

C10_Witness ==
    /\ Returned /\ Len(hist) = 3
    /\ hist[1].op = "parse" /\ hist[2].op = "parse" /\ hist[3].op = "parse"
    /\ hist[1].arg = <<"!", "[", "a", "]", "(", "s", ")">>
    /\ Includes(hist[2].arg, IMG_OPEN)
    /\ hist[3].arg = hist[1].arg
    /\ hist[2].res # hist[1].res
    /\ hist[3].res = hist[1].res

\* ------------------------------------------ <img> tags, parsed and written
\* the parse and serialize steps of a text that holds no table
NextPlain ==
    \/ SerializeDoc
    \/ StartParse
    \/ PreprocessComments
    \/ PreprocessHtmlImages
    \/ Tokenize
    \/ FindRanges
    \/ ParsePlain

LEFT == <<"l", "e", "f", "t">>
ALIGN == <<"a", "l", "i", "g", "n">>
WIDTH == <<"w", "i", "d", "t", "h">>
DATA == <<"d", "a", "t", "a", "-">>

\* name="value" after a space; nothing for the name Null
TagAttr(name, value) == IF name = Null THEN <<>> ELSE <<SP>> \o name \o <<"=", DQ>> \o value \o <<DQ>>

\* an <img> tag: its src, an alt or none, an align or data-align or none, a
\* width or data-width of digits with or without a percent sign or none
ImgTagsGiven ==
    [src : {<<"s">>, <<"a", SP, "b">>},
     alt : {Null, <<"a">>},
     alignName : {Null, ALIGN, DATA \o ALIGN},
     align : {LEFT, CENTER},
     widthName : {Null, WIDTH, DATA \o WIDTH},
     width : {<<"5", "0">>, <<"7", "%">>, <<"1", "0", "0">>, <<"1", "5", "0">>, <<"0">>}]

ImgTag(g) ==
    IMG_OPEN \o TagAttr(<<"s", "r", "c">>, g.src)
    \o TagAttr(IF g.alt = Null THEN Null ELSE <<"a", "l", "t">>, IF g.alt = Null THEN <<>> ELSE g.alt)
    \o TagAttr(g.alignName, g.align)
    \o TagAttr(g.widthName, g.width)
    \o <<SP, "/", ">">>

InitImage ==
    \E g \in ImgTagsGiven : SessionStart(<<ParseCall(ImgTag(g)), SerializeCall>>, NullNode, g)

SpecImage == InitImage /\ [][NextPlain]_vars

\* the document of one paragraph holding one image
ImageDoc(src, alt, align, width) ==
    Doc(<<Paragraph(<<Image(src, alt, Null, align, width, Null)>>)>>)

\* the number the digits of a width attribute stand for
GivenWidth(g) == ParseInt(SelectSeq(g.width, LAMBDA ch : ch # "%"))

\* the images of a document of one paragraph
ImagesOf(d) ==
    IF d.type = "doc" /\ Len(d.content) = 1 /\ d.content[1].type = "paragraph"
    THEN SelectSeq(d.content[1].content, LAMBDA n : n.type = "image")
    ELSE <<>>

AlignRoundTrips(g) ==
    /\ Len(hist) >= 1 => hist[1].res = ImageDoc(g.src, g.alt, g.align, 100)
    /\ Len(hist) >= 2 =>
         /\ StartsAt(hist[2].res, IMG_OPEN, 1)
         /\ Includes(hist[2].res, TagAttr(ALIGN, g.align))
         /\ ~Includes(hist[2].res, WIDTH)

\* C11: an <img> tag with a src, an align other than the default (given
\* as align or data-align) and no width parses to an image node of that
\* src, that align and width 100, and the node is written as an <img> tag
\* that holds the align attribute and no width attribute
C11_AlignRoundTrip ==
    given.alignName # Null /\ given.widthName = Null => AlignRoundTrips(given)

\* the same for a src without white space, which is a markdown link
\* destination as it stands
AlignRoundTripOfPlainSrc ==
    given.alignName # Null /\ given.widthName = Null /\ given.src = <<"s">> => AlignRoundTrips(given)

\* C12: whatever number n the width or data-width attribute of an <img> tag
\* gives, as "n" or "n%", the image node parse produces has a width in
\* 1..100
C12_WidthClamped ==
    given.widthName # Null /\ Len(hist) >= 1 =>
        \A k \in 1..Len(ImagesOf(hist[1].res)) :
            ImagesOf(hist[1].res)[k].attrs.width \in 1..100

\* what parse does with the number: it becomes the width of the node as it
\* is, 0 apart, which leaves the default
WidthIsTheNumberGiven ==
    given.widthName # Null /\ given.src = <<"s">> /\ Len(hist) >= 1 =>
        /\ Len(ImagesOf(hist[1].res)) = 1
        /\ ImagesOf(hist[1].res)[1].attrs.width =
             (IF GivenWidth(given) = 0 THEN 100 ELSE GivenWidth(given))

\* --------------------------------------- applyCommentMarks on its own
MaxParts == 3

\* START(i) and END(i): the marker, the id, the marker
StartSentinel(i) == COMMENT_START_MARKER \o IntToStr(i) \o COMMENT_START_MARKER
EndSentinel(i) == COMMENT_END_MARKER \o IntToStr(i) \o COMMENT_END_MARKER

\* a mark of the base parser, as the bold of **b**
StrongMark == [type |-> "strong", text |-> <<>>]

\* what the text of a leaf is made of: plain text, a sentinel on its own,
\* or a whole pair around a text or around nothing
PartText(part) ==
    CASE part = "a" -> <<"a">>
      [] part = "S0" -> StartSentinel(0)
      [] part = "E0" -> EndSentinel(0)
      [] part = "E1" -> EndSentinel(1)
      [] part = "pair0" -> StartSentinel(0) \o <<"h">> \o EndSentinel(0)
      [] part = "pair1" -> StartSentinel(1) \o <<"k">> \o EndSentinel(1)
      [] part = "empty0" -> StartSentinel(0) \o EndSentinel(0)

PartKinds == {"a", "S0", "E0", "E1", "pair0", "pair1", "empty0"}

PartsText(parts) == Concat([k \in 1..Len(parts) |-> PartText(parts[k])])

\* the comment side table: empty, of comment 0, of comments 0 and 1
SideTables == {EmptyMap, 0 :> <<"n">>, (0 :> <<"n">>) @@ (1 :> <<"m">>)}

\* a paragraph of one leaf, plain or bold, or of a plain leaf followed by
\* a bold one
LeavesGiven ==
    {[first |-> f, second |-> <<>>, marks |-> m, table |-> t] :
        f \in SeqsUpTo(PartKinds, MaxParts) \ {<<>>}, m \in {<<>>, <<StrongMark>>}, t \in SideTables}
    \cup {[first |-> f, second |-> g, marks |-> <<>>, table |-> t] :
            f \in {<<"S0">>, <<"a", "S0">>, <<"S0", "a">>, <<"a">>},
            g \in {<<"E0">>, <<"a", "E0">>, <<"E0", "a">>, <<"a">>},
            t \in SideTables}

LeavesOf(g) ==
    <<TextNode(PartsText(g.first), g.marks)>>
    \o (IF g.second = <<>> THEN <<>> ELSE <<TextNode(PartsText(g.second), <<StrongMark>>)>>)

InitMarks ==
    \E g \in LeavesGiven :
        /\ EscIdle /\ ExtIdle
        /\ pc = "marks" /\ todo = <<>> /\ hist = <<>> /\ out = <<>> /\ given = g
        /\ document = Doc(<<Paragraph(LeavesOf(g))>>)
        /\ parseCommentTexts = g.table
        /\ parseContent = <<>> /\ commentProcessed = <<>> /\ processedContent = <<>>
        /\ parseImgAttrs = EmptyMap /\ parseTokens = <<>> /\ tableRanges = <<>>
        /\ parseChildren = <<>> /\ lastEnd = 0 /\ ri = 1

\* applyCommentMarks(doc, commentTexts)
ApplyCommentMarks ==
    /\ pc = "marks"
    /\ document' = applyCommentMarks(document, parseCommentTexts)
    /\ pc' = "marked"
    /\ UNCHANGED <<todo, hist, out, given, callVars, escVars, extVars>>

NextMarks == ApplyCommentMarks

SpecMarks == InitMarks /\ [][NextMarks]_vars

Marked == pc = "marked"

\* the leaves of the paragraph after applyCommentMarks
MarkedLeaves == document.content[1].content

HasSentinel(text) == Includes(text, COMMENT_START_MARKER) \/ Includes(text, COMMENT_END_MARKER)

Has(parts, part) == \E k \in 1..Len(parts) : parts[k] = part

\* the plain text before and after the one sentinel part of parts
TextBefore(parts, part) ==
    PartsText(SubSeq(parts, 1, (CHOOSE k \in 1..Len(parts) : parts[k] = part) - 1))
TextAfter(parts, part) ==
    PartsText(SubSeq(parts, (CHOOSE k \in 1..Len(parts) : parts[k] = part) + 1, Len(parts)))

TextLeaf(text, marks) == IF text = <<>> THEN <<>> ELSE <<TextNode(text, marks)>>

\* START(0) in the plain leaf, END(0) in the bold leaf that follows, and
\* comment 0 in the side table
SpansLeaves(g) ==
    g.second # <<>> /\ Has(g.first, "S0") /\ Has(g.second, "E0") /\ 0 \in DOMAIN g.table

\* C13: when the START and the END sentinel of one comment are in different
\* text leaves of a block, the pair is resolved all the same: the text
\* between them gets the comment mark of the side-table text, in every leaf,
\* and both sentinels are gone
C13_PairSpanningLeaves ==
    Marked /\ SpansLeaves(given) =>
        /\ \A k \in 1..Len(MarkedLeaves) : ~HasSentinel(MarkedLeaves[k].text)
        /\ MarkedLeaves =
             TextLeaf(TextBefore(given.first, "S0"), <<>>)
             \o TextLeaf(TextAfter(given.first, "S0"), <<CommentMark(given.table[0])>>)
             \o TextLeaf(TextBefore(given.second, "E0"), <<StrongMark, CommentMark(given.table[0])>>)
             \o TextLeaf(TextAfter(given.second, "E0"), <<StrongMark>>)

\* what the code does with such a pair: nothing
PairSpanningLeavesIsLeft ==
    Marked /\ SpansLeaves(given) => MarkedLeaves = LeavesOf(given)

\* one leaf of plain text and whole pairs, at least one pair, every id in
\* the side table
Paired(g) ==
    /\ g.second = <<>>
    /\ \A k \in 1..Len(g.first) : g.first[k] \in {"a", "pair0", "pair1", "empty0"}
    /\ \E k \in 1..Len(g.first) : g.first[k] # "a"
    /\ (Has(g.first, "pair0") \/ Has(g.first, "empty0")) => 0 \in DOMAIN g.table
    /\ Has(g.first, "pair1") => 1 \in DOMAIN g.table

\* the leaves the parts stand for: plain text with the marks of the leaf,
\* the text of pair i with these marks and the comment mark of entry i
PartLeaves(part, marks, table) ==
    CASE part = "a" -> <<TextNode(<<"a">>, marks)>>
      [] part = "pair0" -> <<TextNode(<<"h">>, Append(marks, CommentMark(table[0])))>>
      [] part = "pair1" -> <<TextNode(<<"k">>, Append(marks, CommentMark(table[1])))>>
      [] OTHER -> <<>>

ResolvedLeaves(g) ==
    JoinText(Concat([k \in 1..Len(g.first) |-> PartLeaves(g.first[k], g.marks, g.table)]))

\* C14: a text leaf with marks M that holds k >= 1 matched pairs is
\* replaced, in order, by leaves whose texts are the text of the leaf
\* without the sentinels; the text outside the pairs keeps M, and the text
\* of pair i carries M and one comment mark of the side-table text of i
C14_ResolutionInOneLeaf ==
    Marked /\ Paired(given) =>
        /\ MarkedLeaves = ResolvedLeaves(given)
        /\ \A k \in 1..Len(MarkedLeaves) : ~HasSentinel(MarkedLeaves[k].text)

\* it is so whenever the leaf holds some text beside the sentinels
ResolutionWhereTextRemains ==
    Marked /\ Paired(given) /\ ResolvedLeaves(given) # <<>> => MarkedLeaves = ResolvedLeaves(given)

\* one leaf whose sentinels do not resolve: START(0) without END(0),
\* with or without an END(1) after it, or the pair of id 1, which the side
\* table does not hold
Unresolvable(g) ==
    /\ g.second = <<>>
    /\ \A k \in 1..Len(g.first) : g.first[k] \in {"a", "S0", "E1", "pair1"}
    /\ Has(g.first, "S0") \/ Has(g.first, "pair1")
    /\ 1 \notin DOMAIN g.table

\* C15: a START(i) without END(i), a START(i) ... END(j) with another id j
\* and a pair whose id is not in the side table stay literal text: the leaf
\* is unchanged and no comment mark is made
C15_UnresolvableStayLiteral ==
    Marked /\ Unresolvable(given) => document = Doc(<<Paragraph(LeavesOf(given))>>)

\* it is so for the sentinels without a partner, and for the pair of an
\* unknown id when the side table is empty
UnmatchedStayLiteral ==
    Marked /\ Unresolvable(given) /\ (~Has(given.first, "pair1") \/ given.table = EmptyMap)
    => document = Doc(<<Paragraph(LeavesOf(given))>>)

\* ------------------------------------------------------ ordered lists
MaxStart == 11
MaxItems == 3

\* ordered lists as they are written: the number of the first item and the
\* texts of the items
ListsGiven == [start : 0..MaxStart, items : SeqsUpTo({<<"a">>, <<"b", SP, "c">>}, MaxItems) \ {<<>>}]

\* the lines  n. text  of the list, numbered from its start
ListText(g) ==
    Join([k \in 1..Len(g.items) |-> IntToStr(g.start + k - 1) \o <<".", SP>> \o g.items[k]],
         <<NL>>)

InitList == \E g \in ListsGiven : SessionStart(<<ParseCall(ListText(g))>>, NullNode, g)

NextList ==
    StartParse \/ PreprocessComments \/ PreprocessHtmlImages \/ Tokenize \/ FindRanges \/ ParsePlain

SpecList == InitList /\ [][NextList]_vars

\* the ordered_list node of order n for the items given
ListDoc(n, items) ==
    Doc(<<OrderedList(n, [k \in 1..Len(items) |->
                             ListItem(<<Paragraph(<<TextNode(items[k], <<>>)>>)>>)])>>)

\* C20: an ordered list whose first number is n >= 0 is parsed to an
\* ordered_list node of order n; order is 1 only when the list token has no
\* start value
C20_OrderedListStart ==
    /\ Returned => document = ListDoc(given.start, given.items)
    /\ pc \in {"ranges", "plain"} =>
          (OrderedListAttrs(parseTokens[1]).order = 1 => parseTokens[1].start = NoStart)

\* the same for a list that starts at 1 or more
OrderIsThePositiveStart ==
    Returned /\ given.start >= 1 => document = ListDoc(given.start, given.items)

\* the list  0. a  is parsed with order 1
ListFromZeroGetsOrderOne ==
    /\ Returned
    /\ given = [start |-> 0, items |-> << <<"a">> >>]
    /\ parseTokens[1].start = 0
    /\ document = ListDoc(1, given.items)

\* ----------------------------------------- the order of the two passes
\* an <img> tag written with single quotes: src, and an align or none
QuotedTag(src, align) ==
    IMG_OPEN \o <<SP, "s", "r", "c", "=", "'">> \o src \o <<"'">>
    \o (IF align = Null THEN <<>> ELSE <<SP>> \o ALIGN \o <<"=", "'">> \o align \o <<"'">>)
    \o <<SP, "/", ">">>

\* the quoted comment texts: a plain one, and <img> tags in single and in
\* double quotes
NotesGiven ==
    {<<"n">>, QuotedTag(<<"c">>, Null), QuotedTag(<<"c">>, LEFT),
     IMG_OPEN \o TagAttr(<<"s", "r", "c">>, <<"c">>) \o TagAttr(ALIGN, LEFT) \o <<SP, "/", ">">>}

\* the highlighted texts, each with the text the image pass leaves of it
HighlightsGiven ==
    {[raw |-> <<"h">>, rewritten |-> <<"h">>],
     [raw |-> <<>>, rewritten |-> <<>>],
     [raw |-> <<"!", "[", "]", "(", "s", ")">>, rewritten |-> <<"!", "[", "]", "(", "s", ")">>],
     [raw |-> QuotedTag(<<"s">>, LEFT), rewritten |-> <<"!", "[", "]", "(", "s", ")">>],
     [raw |-> QuotedTag(<<"s">>, Null), rewritten |-> <<"!", "[", "]", "(", "s", ")">>],
     [raw |-> <<"h">> \o QuotedTag(<<"s">>, CENTER),
      rewritten |-> <<"h", "!", "[", "]", "(", "s", ")">>]}

\* what follows the wrapper: nothing, a word, or one more tag
TailsGiven ==
    {[raw |-> <<>>, rewritten |-> <<>>],
     [raw |-> <<SP, "t">>, rewritten |-> <<SP, "t">>],
     [raw |-> <<SP>> \o QuotedTag(<<"o">>, LEFT), rewritten |-> <<SP, "!", "[", "]", "(", "o", ")">>]}

OrdersGiven == [note : NotesGiven, high : HighlightsGiven, tail : TailsGiven]

OrderText(g) == CommentWrapper(g.note, g.high.raw) \o g.tail.raw

InitOrder == \E g \in OrdersGiven : SessionStart(<<ParseCall(OrderText(g)), SerializeCall>>, NullNode, g)

SpecOrder == InitOrder /\ [][NextPlain]_vars

\* both passes of the parse in hand are over
BothPassesDone == pc \notin {"idle", "comments", "images"}

\* C25: the comment pass runs before the image pass, and the image pass on
\* its result: an <img> tag in the quoted comment text is kept as written in
\* the comment side table and is neither rewritten nor entered in the image
\* side table; an <img> tag in the highlighted text is rewritten to a
\* markdown image between the two sentinels.
C25_PassOrder ==
    BothPassesDone =>
        /\ DOMAIN parseCommentTexts = {0}
        /\ parseCommentTexts[0] = given.note
        /\ <<"c">> \notin DOMAIN parseImgAttrs
        /\ processedContent =
              StartSentinel(0) \o given.high.rewritten \o EndSentinel(0) \o given.tail.rewritten

\* a tag with an align in the comment text and one in the highlighted text
C25_Witness ==
    /\ BothPassesDone
    /\ given.note = QuotedTag(<<"c">>, LEFT)
    /\ given.high.raw = QuotedTag(<<"s">>, LEFT)
    /\ parseCommentTexts[0] = QuotedTag(<<"c">>, LEFT)
    /\ DOMAIN parseImgAttrs = {<<"s">>}
    /\ processedContent = StartSentinel(0) \o <<"!", "[", "]", "(", "s", ")">> \o EndSentinel(0)

\* the text leaves of a node, in document order
RECURSIVE TextLeaves(_)
TextLeaves(node) ==
    IF IsText(node) THEN <<node>>
    ELSE IF node.type \in {"image", "hard_break"} THEN <<>>
    ELSE Concat([i \in 1..Len(node.content) |-> TextLeaves(node.content[i])])

\* the parse of the text given has returned its document
ParsedGiven == Len(hist) >= 1 /\ hist[1].op = "parse" /\ hist[1].arg = OrderText(given)

LeakedLeaves == {k \in 1..Len(TextLeaves(hist[1].res)) : HasSentinel(TextLeaves(hist[1].res)[k].text)}

NoLeakForPlainHighlight ==
    ParsedGiven /\ given.high.raw = <<"h">> => LeakedLeaves = {}

\* the wrapper of an empty highlighted text leaves the leaf START(0)END(0)
EmptyHighlightLeaks ==
    /\ ParsedGiven /\ given.high.raw = <<>> /\ given.tail.raw = <<>>
    /\ TextLeaves(hist[1].res) = <<TextNode(StartSentinel(0) \o EndSentinel(0), <<>>)>>

\* the wrapper of an image leaves START(0) in the leaf before the image and
\* END(0) in the leaf after it
ImageHighlightLeaks ==
    /\ ParsedGiven /\ given.high.raw = <<"!", "[", "]", "(", "s", ")">> /\ given.tail.raw = <<>>
    /\ TextLeaves(hist[1].res) = <<TextNode(StartSentinel(0), <<>>), TextNode(EndSentinel(0), <<>>)>>

\* ------------------------------------------------- fenced code blocks
MaxFenceLines == 2

\* the lines of a fence: code, an <img> tag without and with an align, and
\* a comment wrapper
FenceLineKinds ==
    {<<"x", "*">>, QuotedTag(<<"s">>, Null), QuotedTag(<<"s">>, LEFT), CommentWrapper(<<"n">>, <<"h">>)}

PlainFenceLines == {<<"x", "*">>}

FencesGiven ==
    [lead : {<<>>, <<"p", NL, NL>>},
     language : {<<>>, <<"j", "s">>},
     lines : SeqsUpTo(FenceLineKinds, MaxFenceLines) \ {<<>>}]

FenceText(g) ==
    g.lead \o FENCE \o g.language \o <<NL>> \o Join(g.lines, <<NL>>) \o <<NL>> \o FENCE

InitFence == \E g \in FencesGiven : SessionStart(<<ParseCall(FenceText(g)), SerializeCall>>, NullNode, g)

SpecFence == InitFence /\ [][NextPlain]_vars

\* the parse of the fence given has returned its document
FenceParsed == Len(hist) >= 1 /\ hist[1].op = "parse"

\* and the document was serialized
FenceWritten == Len(hist) = 2 /\ hist[2].op = "serialize" /\ hist[2].arg = hist[1].res

\* the code_block of the document parse returned
ParsedCodeBlock == hist[1].res.content[Len(hist[1].res.content)]

IsPlainFence(g) == \A k \in 1..Len(g.lines) : g.lines[k] \in PlainFenceLines

PlainFenceComesBack ==
    IsPlainFence(given) =>
        /\ FenceParsed =>
              ParsedCodeBlock = CodeBlock(given.language, <<TextNode(Join(given.lines, <<NL>>), <<>>)>>)
        /\ FenceWritten => hist[2].res = FenceText(given)

\* the <img> tag inside a fence is rewritten to a markdown image, in the
\* node and in the text written back
TagInFenceIsRewritten ==
    /\ FenceWritten /\ given.lead = <<>> /\ given.language = <<>>
    /\ given.lines = <<QuotedTag(<<"s">>, LEFT)>>
    /\ TextContent(ParsedCodeBlock) = <<"!", "[", "]", "(", "s", ")">>
    /\ hist[2].res = FENCE \o <<NL>> \o <<"!", "[", "]", "(", "s", ")">> \o <<NL>> \o FENCE

\* the wrapper inside a fence is taken for a comment: the highlighted text
\* is left, with a comment mark on it
WrapperInFenceIsTaken ==
    /\ FenceWritten /\ given.lead = <<>> /\ given.language = <<>>
    /\ given.lines = <<CommentWrapper(<<"n">>, <<"h">>)>>
    /\ ParsedCodeBlock = CodeBlock(<<>>, <<TextNode(<<"h">>, <<CommentMark(<<"n">>)>>)>>)
    /\ hist[2].res = FENCE \o <<NL>> \o <<"h">> \o <<NL>> \o FENCE

\* ------------------------------------------- tables inside containers
MaxGapSegs == 2

QuotedLines(lines) == [k \in 1..Len(lines) |-> IF lines[k] = <<>> THEN <<">">> ELSE <<">", SP>> \o lines[k]]

SmallTable == GfmTableLines(<< <<<<"A">>>>, <<<<"1">>>> >>)

\* the blocks of a text: a paragraph, a table, and blockquotes that hold a
\* paragraph, a table, or a paragraph and a table
GapSegKinds ==
    {<< <<"p">> >>, SmallTable, QuotedLines(<< <<"q">> >>), QuotedLines(SmallTable),
     QuotedLines(<< <<"q">>, <<>> >> \o SmallTable)}

GapText(segs) == Join([k \in 1..Len(segs) |-> Join(segs[k], <<NL>>)], <<NL, NL>>)

InitGap ==
    \E g \in SeqsUpTo(GapSegKinds, MaxGapSegs) : SessionStart(<<ParseCall(GapText(g))>>, NullNode, g)

NextGap ==
    \/ StartParse
    \/ PreprocessComments
    \/ PreprocessHtmlImages
    \/ Tokenize
    \/ FindRanges
    \/ ParsePlain
    \/ AssembleRange
    \/ AssembleRest

SpecGap == InitGap /\ [][NextGap]_vars

\* the token range of the gap the next step gives to getContentFromTokens,
\* start = end when the step gives none
NextGapRange ==
    IF ri <= Len(tableRanges)
    THEN [start |-> lastEnd, end |-> Max(lastEnd, tableRanges[ri].start)]
    ELSE [start |-> lastEnd, end |-> Max(lastEnd, Len(parseTokens))]

\* the lines of the slice [minLine, maxLine) of that gap
GapSliceLines ==
    {l \in 0..Len(Split(processedContent, NL)) :
        /\ TokenLineSpan(parseTokens, NextGapRange.start, NextGapRange.end).minLine # -1
        /\ l >= TokenLineSpan(parseTokens, NextGapRange.start, NextGapRange.end).minLine
        /\ l < TokenLineSpan(parseTokens, NextGapRange.start, NextGapRange.end).maxLine}

\* the lines of the table of a range: the map of its table_open
TableSpanLines(range) ==
    {l \in 0..Len(Split(processedContent, NL)) :
        l >= parseTokens[range.start + 1].map[1] /\ l < parseTokens[range.start + 1].map[2]}

AllTableLines == UNION {TableSpanLines(tableRanges[k]) : k \in 1..Len(tableRanges)}

HasQuotedTable(segs) ==
    \E k \in 1..Len(segs) : segs[k] \in {QuotedLines(SmallTable), QuotedLines(<< <<"q">>, <<>> >> \o SmallTable)}

\* C28: the line slice [minLine, maxLine) getContentFromTokens returns for a
\* gap holds no line of the line span of a table range, also when a
\* blockquote_open with a span around a table is among the tokens of the
\* gap: no source line of a table is handed to the base parser.
C28_GapSlicesExcludeTables ==
    pc = "tables" => GapSliceLines \cap AllTableLines = {}

\* it is so where no table stands in a blockquote
GapSlicesOfFlatTexts ==
    pc = "tables" /\ ~HasQuotedTable(given) => GapSliceLines \cap AllTableLines = {}

\* the gap in front of a quoted table is the blockquote_open, whose span is
\* the whole blockquote: the slice is the three lines of the table, and the
\* document returned holds an empty paragraph for it and has no blockquote
QuotedTableIsInTheGap ==
    /\ given = <<QuotedLines(SmallTable)>>
    /\ \/ /\ pc = "tables" /\ ri = 1
          /\ NextGapRange = [start |-> 0, end |-> 1]
          /\ GapSliceLines = {0, 1, 2} /\ AllTableLines = {0, 1, 2}
       \/ /\ Returned
          /\ document = Doc(<<EmptyParagraph, TableOf(<< <<<<"A">>>>, <<<<"1">>>> >>)>>)

\* the paragraph that stands in the blockquote before the table is lost
QuotedParagraphIsLost ==
    /\ given = <<QuotedLines(<< <<"q">>, <<>> >> \o SmallTable)>>
    /\ Returned
    /\ document = Doc(<<EmptyParagraph, TableOf(<< <<<<"A">>>>, <<<<"1">>>> >>)>>)

\* ------------------------------------------ two images in one paragraph
\* how an image is written: as markdown, or as an <img> tag with an align,
\* a width, or neither (Null for an attribute that is not written)
MdImage(src) == [form |-> "md", src |-> src, align |-> Null, width |-> Null]
TagImage(src, align, width) == [form |-> "tag", src |-> src, align |-> align, width |-> width]

ImageSourcesGiven ==
    UNION {{MdImage(src), TagImage(src, Null, Null), TagImage(src, LEFT, Null),
            TagImage(src, CENTER, Null), TagImage(src, Null, <<"5", "0">>)} : src \in {<<"s">>, <<"t">>}}

ImageSourceText(g) ==
    IF g.form = "md" THEN <<"!", "[", "]", "(">> \o g.src \o <<")">>
    ELSE IMG_OPEN \o <<SP, "s", "r", "c", "=", "'">> \o g.src \o <<"'">>
         \o (IF g.align = Null THEN <<>> ELSE <<SP>> \o ALIGN \o <<"=", "'">> \o g.align \o <<"'">>)
         \o (IF g.width = Null THEN <<>> ELSE <<SP>> \o WIDTH \o <<"=", "'">> \o g.width \o <<"'">>)
         \o <<SP, "/", ">">>

PairText(g) == ImageSourceText(g[1]) \o <<SP>> \o ImageSourceText(g[2])

InitPair ==
    \E g \in ImageSourcesGiven \X ImageSourcesGiven :
        SessionStart(<<ParseCall(PairText(g)), SerializeCall>>, NullNode, g)

SpecPair == InitPair /\ [][NextPlain]_vars

\* the image node an image written as g stands for
ImageOfSource(g) ==
    Image(g.src, Null, Null,
          IF g.align = Null THEN INLINE ELSE g.align,
          IF g.width = Null THEN 100 ELSE ParseInt(g.width),
          Null)

PairParsed == Len(hist) >= 1 /\ hist[1].op = "parse"

\* the inline nodes of the paragraph parse returned
PairNodes == hist[1].res.content[1].content

\* C29: after parse each image node has the align and the width of the tag
\* or the markdown image it was made from: two <img> tags of one src keep
\* their own values, and a plain markdown image has align 'inline' and
\* width 100 also beside an <img> tag of the same src with other values.
C29_ImageAttributesDoNotLeak ==
    PairParsed =>
        PairNodes = <<ImageOfSource(given[1]), TextNode(<<SP>>, <<>>), ImageOfSource(given[2])>>

\* it is so for two images of different src
ImagesOfTwoSrcsKeepTheirOwn ==
    PairParsed /\ given[1].src # given[2].src =>
        PairNodes = <<ImageOfSource(given[1]), TextNode(<<SP>>, <<>>), ImageOfSource(given[2])>>

\* two tags of one src: both nodes have the align of the second tag
TwoTagsShareTheLastAlign ==
    /\ PairParsed
    /\ given = <<TagImage(<<"s">>, LEFT, Null), TagImage(<<"s">>, CENTER, Null)>>
    /\ PairNodes[1] = Image(<<"s">>, Null, Null, CENTER, 100, Null)
    /\ PairNodes[3] = Image(<<"s">>, Null, Null, CENTER, 100, Null)

\* the markdown image has the align of the tag of the same src
PlainImageTakesTheTagAlign ==
    /\ PairParsed
    /\ given = <<MdImage(<<"s">>), TagImage(<<"s">>, LEFT, Null)>>
    /\ PairNodes[1] = Image(<<"s">>, Null, Null, LEFT, 100, Null)

\* ------------------------------------- parseTableTokens, token by token
MaxTableTokens == 8

\* the children markdown-it gives the inline token of  a*b*`c`![](s)  and
\* a hard break, and of  **a**  (the emphasis rule leaves a text child of
\* empty content on either side of strong_open .. strong_close)
MixedChildren ==
    <<InlineText(<<"a">>), InlineOther("em_open", <<>>), InlineText(<<"b">>),
      InlineOther("em_close", <<>>), InlineOther("code_inline", <<"c">>),
      InlineImage(<<"s">>, Null, <<>>), InlineOther("hardbreak", <<>>)>>

StrongChildren ==
    <<InlineText(<<>>), InlineOther("strong_open", <<>>), InlineText(<<"a">>),
      InlineOther("strong_close", <<>>), InlineText(<<>>)>>

\* the tokens markdown-it puts between table_open and table_close, an
\* inline token of one text child, of no child, of text among children of
\* other types, and of strong text
TableTokenKinds ==
    {Token(t, Null, <<>>, <<>>) :
        t \in {"table_open", "table_close", "thead_open", "tr_open", "tr_close",
               "th_open", "th_close", "td_open", "td_close"}}
    \cup {Token("inline", Null, <<"a">>, <<InlineText(<<"a">>)>>),
          Token("inline", Null, <<>>, <<>>),
          Token("inline", Null, <<"a", "*", "b", "*">>, MixedChildren),
          Token("inline", Null, <<"*", "*", "a", "*", "*">>, StrongChildren)}

\* schema.nodes.table_row.create(null, currentRow) may keep the array it
\* is given (Fragment.fromArray of prosemirror-model does when no text is
\* joined): a cell pushed on currentRow after tr_close then also shows in
\* the last k rows
PushShared(rows, k, cell) ==
    [r \in 1..Len(rows) |->
        IF r > Len(rows) - k THEN [rows[r] EXCEPT !.content = Append(@, cell)] ELSE rows[r]]

OpenedShared(rows, k, cell) ==
    [r \in 1..Len(rows) |-> IF r > Len(rows) - k THEN Append(rows[r], cell) ELSE rows[r]]

InitExtract == EscIdle /\ SessIdle /\ ExtIdle

\* one iteration of the for loop over the tokens, on a token of any kind
ExtractStep ==
    /\ ~tacc.done /\ ~tacc.thrown /\ tn < MaxTableTokens
    /\ \E token \in TableTokenKinds, keptArray \in BOOLEAN :
       \E nxt \in {TableStep(tacc, token)} :
       \E cellPushed \in {Len(nxt.currentRow) = Len(tacc.currentRow) + 1},
          rowPushed \in {Len(nxt.rows) = Len(tacc.rows) + 1} :
       \E also \in {cellPushed /\ keptArray /\ topened.shared > 0} :
         /\ tacc' = IF also
                    THEN [nxt EXCEPT !.rows = PushShared(@, topened.shared,
                                                         nxt.currentRow[Len(nxt.currentRow)])]
                    ELSE nxt
         /\ topened' =
              [cell |-> IF token.type \in {"th_open", "td_open"} THEN token.type
                        ELSE IF token.type \in {"th_close", "td_close"} THEN "none"
                        ELSE topened.cell,
               texts |-> IF token.type \in {"th_open", "td_open", "th_close", "td_close"} THEN 0
                         ELSE IF token.type = "inline" /\ tacc.currentCellType # Null
                         THEN topened.texts + Len(CellInlineNodes(token))
                         ELSE topened.texts,
               kids |-> IF token.type \in {"th_open", "td_open", "th_close", "td_close"} THEN <<>>
                        ELSE IF token.type = "inline" /\ tacc.currentCellType # Null
                        THEN topened.kids \o token.children
                        ELSE topened.kids,
               row |-> IF cellPushed
                       THEN Append(topened.row, [by |-> topened.cell, texts |-> topened.texts])
                       ELSE IF token.type = "tr_open" THEN <<>>
                       ELSE topened.row,
               rows |-> IF token.type = "table_open" THEN <<>>
                        ELSE IF rowPushed THEN Append(topened.rows, topened.row)
                        ELSE IF also
                        THEN OpenedShared(topened.rows, topened.shared,
                                          [by |-> topened.cell, texts |-> topened.texts])
                        ELSE topened.rows,
               shared |-> IF token.type \in {"table_open", "tr_open"} THEN 0
                          ELSE IF rowPushed THEN topened.shared + 1
                          ELSE topened.shared]
    /\ tn' = tn + 1
    /\ UNCHANGED <<escVars, sessVars, callVars>>

NextExtract == ExtractStep

SpecExtract == InitExtract /\ [][NextExtract]_vars

\* a cell as parseTableTokens builds it: one paragraph of text leaves
IsExtractedCell(cell) ==
    /\ cell.type \in {"table_header", "table_cell"}
    /\ Len(cell.content) = 1
    /\ cell.content[1].type = "paragraph"
    /\ \A k \in 1..Len(cell.content[1].content) : IsText(cell.content[1].content[k])

\* C9: whatever the token sequence, parseTableTokens returns null or a
\* table of table_row nodes of at least one cell each, every cell holding
\* exactly one paragraph (empty when the cell got no inline text), and a
\* cell is a header cell exactly when a th_open token opened it
C9_ExtractorStructure ==
    /\ ~tacc.done => tacc.result = NullNode
    /\ tacc.done =>
        /\ tacc.result.type = "table"
        /\ Len(tacc.result.content) >= 1
        /\ Len(topened.rows) = Len(tacc.result.content)
        /\ \A r \in 1..Len(tacc.result.content) :
            /\ tacc.result.content[r].type = "table_row"
            /\ Len(tacc.result.content[r].content) >= 1
            /\ Len(topened.rows[r]) = Len(tacc.result.content[r].content)
            /\ \A c \in 1..Len(tacc.result.content[r].content) :
                /\ IsExtractedCell(tacc.result.content[r].content[c])
                /\ (tacc.result.content[r].content[c].type = "table_header")
                     = (topened.rows[r][c].by = "th_open")
                /\ (tacc.result.content[r].content[c].content[1].content = <<>>)
                     = (topened.rows[r][c].texts = 0)

C9_Witness ==
    /\ tacc.done
    /\ Len(tacc.result.content) = 1
    /\ Len(tacc.result.content[1].content) = 2
    /\ tacc.result.content[1].content[1] = TableCell("table_header", <<Paragraph(<<TextNode(<<"a">>, <<>>)>>)>>)
    /\ tacc.result.content[1].content[2] = TableCell("table_cell", <<EmptyParagraph>>)

\* the text children among the children the open cell has been given
TextKids == SelectSeq(topened.kids, LAMBDA c : c.type = "text")

LiteralTextOnly ==
    tacc.currentCellContent = [k \in 1..Len(TextKids) |-> TextNode(TextKids[k].content, <<>>)]

\* C18: for every inline token inside a cell the extractor appends one
\* text node, without marks, per child of type text, in order, and nothing
\* for a child of any other type
C18_CellsKeepLiteralText ==
    tacc.currentCellType # Null => ~tacc.thrown /\ LiteralTextOnly

\* the same where no text child is empty: emphasis, inline code, images
\* and breaks add nothing to the cell
LiteralTextOfNonEmptyChildren ==
    tacc.currentCellType # Null /\ ~tacc.thrown => LiteralTextOnly

\* emphasis, code, an image and a break in a cell: the two texts are kept
MixedCellKeepsTexts ==
    /\ topened.kids = MixedChildren
    /\ tacc.currentCellContent = <<TextNode(<<"a">>, <<>>), TextNode(<<"b">>, <<>>)>>

\* ------------------------------------------------ escape / unescape runs
\* the characters the escape functions distinguish, two letters that follow
\* a backslash in an escape code, and one ordinary character
CommentChars == {BS, DQ, NL, CR, TAB, "n", "t", "a"}
CommentStrings == SeqsUpTo(CommentChars, MaxCommentLen)


InitEscape ==
    /\ epc = "start"
    /\ etext \in CommentStrings
    /\ escaped = <<>>
    /\ unescaped = <<>>
    /\ SessIdle /\ ExtIdle

Escape ==
    /\ epc = "start"
    /\ escaped' = escapeCommentText(etext)
    /\ epc' = "escaped"
    /\ UNCHANGED <<etext, unescaped, sessVars, callVars, extVars>>

Unescape ==
    /\ epc = "escaped"
    /\ unescaped' = unescapeCommentText(escaped)
    /\ epc' = "done"
    /\ UNCHANGED <<etext, escaped, sessVars, callVars, extVars>>

NextEscape == Escape \/ Unescape

SpecEscape == InitEscape /\ [][NextEscape]_vars

\* C2: for every string t over backslash, double quote, newline, carriage
\* return, tab and ordinary characters,
\* unescapeCommentText(escapeCommentText(t)) = t.
C2_EscapeRoundTrip == epc = "done" => unescaped = etext

\* a text holding a backslash followed by the letter n, and a real newline,
\* has gone through both functions
C2_Witness ==
    /\ epc = "done"
    /\ \E i \in 1..Len(etext) - 1 : etext[i] = BS /\ etext[i + 1] = "n"
    /\ \E i \in 1..Len(etext) : etext[i] = NL
    /\ escaped # etext

====
